---- MODULE Spec2Model ----
(***************************************************************************)
(* Model of the turn orchestrator of ai-avatars-stream                     *)
(* (src/src/orchestrator.py): the prefetch cycle (prefetch_next), the      *)
(* prefetch thread (_prefetch_loop), the prebuffer phase and the playback  *)
(* loop (run_forever / play_next), at the granularity of the statements    *)
(* that touch the shared state or call an external collaborator.           *)
(***************************************************************************)
EXTENDS Integers, Sequences, FiniteSets, TLC

\* ------------------------------------------------------------------ bounds
MaxTurnsCfg == 3        \* the positive value of MAX_TURNS explored
MinQueueCfg == 2        \* the largest MIN_QUEUE_ITEMS explored
PrebufferCfg == 2       \* the positive PREBUFFER_TOTAL_TURNS explored
MaxErrorsCfg == 2       \* PREBUFFER_MAX_ERRORS
HistoryMaxCfg == 2      \* HISTORY_MAX
SummaryEveryCfg == 2    \* SUMMARY_EVERY_N
MaxSeq == 2             \* cap of turn_seq when MAX_TURNS = 0 (unlimited)
MaxFaults == 1          \* external calls that fail in one run
MaxCached == 1          \* turns whose video file an earlier run may have left

Modes == {"png", "text", "heygen_stream", "heygen_video"}

\* the media sources of the presentation surface: audio_player,
\* video_player_a, video_player_b
MediaInputs == {"AUDIO_PLAYER", "VIDEO_PLAYER_A", "VIDEO_PLAYER_B"}

VARIABLES
    \* configuration, fixed by __init__ / the environment
    avatar_mode, max_turns, min_queue_items, prebuffer_total,
    \* shared state of the Orchestrator
    queue, turn_seq, history, running_summary, lock, stop_event,
    \* the Turn objects created so far (queue entries are references to them)
    turns,
    \* turn ids with a non-empty file at _video_out_path(turn_id, speaker);
    \* the directory is looked at in video mode only; those of them whose
    \* file holds only the first chunks of a download that failed
    video_files, partial_files,
    \* transcript log, presentation memo, scene the surface shows; the file
    \* (turn id) assigned to each media source, the file the source restarted
    \* last plays, the surface calls the current play_next call has made
    transcript, last_scene, obs_scene, last_stage,
          media, playing, obs_calls,
    \* prefetch_next: who runs it, where it is, its locals
    runner, cyc, loc,
    \* prefetch thread (_prefetch_loop)
    tpc,
    \* main thread (run_forever, play_next)
    mpc, generated, errors, cur,
    \* observation logs: appended / popped Turn references, and the accesses
    \* of the shared state the last step made without the lock
    enqueued, dequeued, access,
    \* failures the external collaborators may still produce
    faults,
    \* retry(fn, ...): its arguments, its position, the loop variable, the
    \* last error caught, what it returned or raised; and what it did: the
    \* calls of fn (the error each failed one raised) and the sleeps
    max_retries, base_delay_s, max_delay_s, rpc, attempt, last_err, ret,
    fn_calls, slept,
    \* TopicProvider: the object, time.time(), the TOPIC variable of the
    \* environment, the topic file; and what was observed: the last
    \* set_override that took effect, the value the last call of get returned
    tp, now, env_topic, topic_file, installed, got,
    \* the directive list of prefetch_next: the configuration of the
    \* test-class throttle, the turn being prepared, the history snapshot it
    \* sees, the list built for it, and where the conversation stands
    test_class_window, test_class_max, next_turn_id, history_snapshot,
    extra_rules, dpc, stream_closing_turn,
    \* generate_turn and _limit_sentences on texts written out in
    \* characters: the output of the model, the bridge phrase of the role,
    \* MAX_SENTENCES, the call made and the text it returned
    output_text, bridge, max_sentences, lpc, limited,
    \* _wait_playback_end: time.time(), its locals start_t, play_start_t and
    \* norm, its position (the outcome at the end), and whether one of the
    \* polls of this call reported the source as playing
    wnow, start_t, play_start_t, norm, wpc, seen_playing,
    \* set_override and get of the TopicProvider run by two threads, one
    \* attribute access at a time: where the chat watcher is in set_override,
    \* where the other thread is in get, the local now of get, whether this
    \* call of get began after set_override had returned, the calls of get
    spc, gpc, g_now, g_after, gets,
    \* _render_video_for_turn: max_retries of the four retry calls, the
    \* character id of the speaker, the retry call it is in, the attempt of
    \* that call, and the calls of the services made so far
    r_max, character_id, rstep, rattempt, rcalls,
    \* streaming mode: HEYGEN_STREAM_AUTH_MODE, _stream_token, the stored
    \* sessions, the sessions the service has created and the speak tasks it
    \* was sent, the position of the main thread, the caller of
    \* _ensure_stream_sessions, the turn play_next presents
    stream_auth_mode, stream_token, stream_sessions, created, sent, stpc,
    st_ret, st_turn,
    \* TTS.speak for one turn: the files at the final and the temporary path,
    \* the position, the attempt of retry, the calls of speak made for the
    \* turn, audio_path of prefetch_next, audio_file of the enqueued turn
    files, ttspc, tts_attempt, speaks, audio_path, audio_file

sharedVars == <<queue, turn_seq, history, running_summary>>

retryVars == <<max_retries, base_delay_s, max_delay_s, rpc, attempt, last_err,
               ret, fn_calls, slept>>

topicVars == <<tp, now, env_topic, topic_file, installed, got>>

\* the variables of the components that are modelled on their own
dirVars == <<test_class_window, test_class_max, next_turn_id,
             history_snapshot, extra_rules, dpc, stream_closing_turn>>

llmVars == <<output_text, bridge, max_sentences, lpc, limited>>

waitVars == <<wnow, start_t, play_start_t, norm, wpc, seen_playing>>

raceVars == <<spc, gpc, g_now, g_after, gets>>

renderVars == <<r_max, character_id, rstep, rattempt, rcalls>>

streamVars == <<stream_auth_mode, stream_token, stream_sessions, created,
                sent, stpc, st_ret, st_turn>>

ttsVars == <<files, ttspc, tts_attempt, speaks, audio_path, audio_file>>

moreVars == <<waitVars, raceVars, renderVars, streamVars, ttsVars>>

partVars == <<retryVars, topicVars, dirVars, llmVars, moreVars>>

orchVars == <<avatar_mode, max_turns, min_queue_items, prebuffer_total,
          queue, turn_seq, history, running_summary, lock, stop_event,
          turns, video_files, partial_files, transcript, last_scene,
          obs_scene, last_stage, media, playing, obs_calls, runner,
          cyc, loc, tpc, mpc, generated, errors, cur, enqueued, dequeued,
          access, faults>>

vars == <<orchVars, partVars>>

\* ------------------------------------------------------------ mode flags
text_only == avatar_mode = "text"
streaming_mode == avatar_mode = "heygen_stream"
video_mode == avatar_mode = "heygen_video"

\* ------------------------------------------------------------ pure helpers
Range(s) == {s[i] : i \in 1..Len(s)}

LastN(s, n) == IF Len(s) > n THEN SubSeq(s, Len(s) - n + 1, Len(s)) ELSE s

\* the parity test inverted
_next_speaker_swapped(turn_id) == IF turn_id % 2 = 0 THEN "A" ELSE "B"

_next_speaker(turn_id) == IF turn_id % 2 = 1 THEN "A" ELSE "B"

_scene_for_speaker(speaker) == IF speaker = "A" THEN "SCENE_A" ELSE "SCENE_B"

_bridge_phrase(speaker) == IF speaker = "A" THEN "bridgeA" ELSE "bridgeB"

\* len() of a summary string: "" or one produced by summarize
StrLen(s) == IF s = "" THEN 0 ELSE 1

should_summarize(turn_count) ==
    SummaryEveryCfg > 0 /\ turn_count % SummaryEveryCfg = 0

\* a cut that keeps the oldest entries
HistoryCapHead(h) ==
    IF HistoryMaxCfg > 0 /\ Len(h) > HistoryMaxCfg
    THEN SubSeq(h, 1, HistoryMaxCfg)
    ELSE h

\* history[-history_max:] when history_max > 0
HistoryCap(h) == IF HistoryMaxCfg > 0 THEN LastN(h, HistoryMaxCfg) ELSE h

\* a counter that is not advanced
NextTurnIdStale(seq) == seq

\* the turn number a cycle prepares, from the counter it read
NextTurnId(seq) == seq + 1

\* a pop from the wrong end of the deque
PopRight(q) == [item |-> q[Len(q)], rest |-> SubSeq(q, 1, Len(q) - 1)]

\* a read of the head that leaves it in the deque
PopPeek(q) == [item |-> Head(q), rest |-> q]

\* deque.popleft(): the element removed and what remains
PopLeft(q) == [item |-> Head(q), rest |-> Tail(q)]

\* a limit check that lets one more turn through
PastMaxLate(n) == max_turns > 0 /\ n > max_turns + 1

\* max_turns > 0 and next_turn_id > max_turns
PastMax(n) == max_turns > 0 /\ n > max_turns

\* a floor check that lets the queue pass the floor
BelowFloorLoose(n) == n <= min_queue_items

\* a floor check that is off by one
BelowFloorStrict(n) == n + 1 < min_queue_items

\* _queue_len() < min_queue_items
BelowFloor(n) == n < min_queue_items

\* the accesses of the shared state that one step of thread who makes
\* without holding the queue lock, among its reads and writes
Touch(who, reads, writes) ==
    LET all == {[who |-> who, var |-> v, op |-> "read", held |-> (lock = who)] : v \in reads}
               \cup
               {[who |-> who, var |-> v, op |-> "write", held |-> (lock = who)] : v \in writes}
    IN {a \in all : ~a.held}

NoLoc == [next_turn_id |-> 0, speaker |-> "", history_snapshot |-> <<>>,
          summary_snapshot |-> "", text |-> "", audio_path |-> "",
          video_path |-> "", duration_est_s |-> "zero", turn |-> 0,
          turn_count |-> 0, summary_before |-> "", history_for_sum |-> <<>>,
          new_summary |-> "", heygen_calls |-> {}]

NewTurn(l) ==
    [turn_id |-> l.next_turn_id, speaker |-> l.speaker, text |-> l.text,
     audio_file |-> l.audio_path, video_file |-> l.video_path,
     stream_session_id |-> "", stream_task_id |-> "",
     duration_est_s |-> l.duration_est_s, summary_len |-> 0]

\* the main thread is alive (an exception that leaves run_forever ends the
\* process, the prefetch thread being a daemon thread)
Alive == mpc # "crashed"

\* ------------------------------------------------------------------ Init
\* no retry call is being followed
RetryOff ==
    /\ max_retries = 0 /\ base_delay_s = 0 /\ max_delay_s = 0
    /\ rpc = "off" /\ attempt = 0 /\ last_err = "None" /\ ret = "None"
    /\ fn_calls = <<>> /\ slept = <<>>

\* values of Optional attributes
None == "None"
NoneNum == -1

\* topic.py 14-22: a TopicProvider as __init__ leaves it
NewTopicProvider ==
    [_last_check |-> 0, _last_mtime |-> NoneNum, _cached |-> None,
     _override_topic |-> None, _override_expires_at |-> NoneNum,
     _override_source |-> None, _override_author |-> None]

\* no set_override has taken effect; the last step was not a call of get
NotInstalled == [set |-> FALSE, topic |-> None, at |-> 0, ttl_s |-> 0]
NotCalled == [called |-> FALSE, val |-> None]

\* no TopicProvider call is being followed
TopicOff ==
    /\ tp = NewTopicProvider /\ now = 0 /\ env_topic = None
    /\ topic_file = [exists |-> FALSE, mtime |-> 0, text |-> ""]
    /\ installed = NotInstalled /\ got = NotCalled

\* no directive list is being followed
DirOff ==
    /\ test_class_window = 0 /\ test_class_max = 0 /\ next_turn_id = 0
    /\ history_snapshot = <<>> /\ extra_rules = <<>> /\ dpc = "off"
    /\ stream_closing_turn = 0

\* no generate_turn call is being followed
LlmOff ==
    /\ output_text = <<>> /\ bridge = <<>> /\ max_sentences = 0
    /\ lpc = "off" /\ limited = <<>>

\* no _wait_playback_end call is being followed
WaitOff ==
    /\ wnow = 0 /\ start_t = 0 /\ play_start_t = NoneNum /\ norm = None
    /\ wpc = "off" /\ seen_playing = FALSE

\* no interleaving of TopicProvider calls is being followed
RaceOff ==
    /\ spc = "off" /\ gpc = "off" /\ g_now = 0 /\ g_after = FALSE /\ gets = 0

\* no render is being followed step by step
RenderOff ==
    /\ r_max = <<>> /\ character_id = None /\ rstep = 0 /\ rattempt = 0
    /\ rcalls = <<>>

\* no streaming run is being followed
StreamOff ==
    /\ stream_auth_mode = "off" /\ stream_token = None
    /\ stream_sessions = <<>> /\ created = <<>> /\ sent = <<>>
    /\ stpc = "off" /\ st_ret = "off" /\ st_turn = 0

\* no speech synthesis is being followed
TtsOff ==
    /\ files = <<>> /\ ttspc = "off" /\ tts_attempt = 0 /\ speaks = 0
    /\ audio_path = None /\ audio_file = None

MoreOff == WaitOff /\ RaceOff /\ RenderOff /\ StreamOff /\ TtsOff

Init ==
    /\ MoreOff
    /\ RetryOff
    /\ TopicOff
    /\ DirOff
    /\ LlmOff
    /\ avatar_mode \in Modes
    /\ max_turns \in {0, MaxTurnsCfg}
    /\ min_queue_items \in {1, MinQueueCfg}
    /\ prebuffer_total \in {0, PrebufferCfg}
    /\ queue = <<>>
    /\ turn_seq = 0
    /\ history = <<>>
    /\ running_summary = ""
    /\ lock = "free"
    /\ stop_event = FALSE
    /\ turns = <<>>
    /\ video_files \in IF avatar_mode = "heygen_video"
                        THEN {1..k : k \in 0..MaxCached}
                        ELSE {{}}
    /\ partial_files = {}
    /\ transcript = <<>>
    /\ last_scene = "none"
    /\ obs_scene = "unknown"
    /\ last_stage = "none"
    /\ media = [i \in MediaInputs |-> 0]
    /\ playing = 0
    /\ obs_calls = <<>>
    /\ runner = "none"
    /\ cyc = "none"
    /\ loc = NoLoc
    /\ tpc = "unstarted"
    /\ mpc = "prebuf_check"
    /\ generated = 0
    /\ errors = 0
    /\ cur = 0
    /\ enqueued = <<>>
    /\ dequeued = <<>>
    /\ access = {}
    /\ faults = MaxFaults

\* ------------------------------------------------- the queue lock
\* `with self._queue_lock:` entry: blocks until the lock is free
Acquire(who) == lock = "free" /\ lock' = who

\* a with-block that does not release the lock
WithExitHeld(who) == who

\* value of the lock when a with-block of thread who is left
WithExit(who) == "free"

\* an external call succeeds, or fails while failures remain in this run
Outcome(ok) == IF ok THEN faults' = faults ELSE faults > 0 /\ faults' = faults - 1

\* ------------------------------------------------- prefetch_next (one cycle)
\* the cycle is run by the main thread during prebuffering and by the
\* prefetch thread afterwards
CycUnchDisk == <<avatar_mode, max_turns, min_queue_items, prebuffer_total,
                 transcript, last_scene, obs_scene, last_stage,
          media, playing, obs_calls, runner, tpc, mpc,
                 generated, errors, cur, dequeued, partVars>>
CycUnch == <<CycUnchDisk, video_files, partial_files>>

\* line 710: enter the first critical section
CycSnapAcquire ==
    /\ Alive /\ cyc = "start"
    /\ Acquire(runner)
    /\ cyc' = "snap"
    /\ access' = {}
    /\ UNCHANGED <<sharedVars, stop_event, turns, loc, enqueued>>
    /\ UNCHANGED CycUnch
    /\ UNCHANGED faults

\* lines 711-716: snapshot of turn_seq, history, running_summary
CycSnapshot ==
    /\ Alive /\ cyc = "snap"
    /\ loc' = [NoLoc EXCEPT !.next_turn_id = NextTurnId(turn_seq),
                            !.speaker = _next_speaker(NextTurnId(turn_seq)),
                            !.history_snapshot = HistoryCap(history),
                            !.summary_snapshot = running_summary]
    /\ access' = Touch(runner, {"turn_seq", "history", "running_summary"}, {})
    /\ lock' = WithExit(runner)
    /\ cyc' = "max_check"
    /\ UNCHANGED <<sharedVars, stop_event, turns, enqueued>>
    /\ UNCHANGED CycUnch
    /\ UNCHANGED faults

\* lines 717-719: past the configured maximum -> stop flag, nothing generated
CycMaxCheck ==
    /\ Alive /\ cyc = "max_check"
    /\ IF PastMax(loc.next_turn_id)
       THEN stop_event' = TRUE /\ cyc' = "returned"
       ELSE stop_event' = stop_event /\ cyc' = "generate"
    /\ access' = {}
    /\ UNCHANGED <<sharedVars, lock, turns, loc, enqueued>>
    /\ UNCHANGED CycUnch
    /\ UNCHANGED faults

\* a generate_turn that lets the error of the exhausted retries out
generate_turn_raising(speaker, ok) ==
    [raised |-> ~ok, text |-> "gen"]

\* llm.py 148-155: the text of the model, or the bridge phrase of the role
\* when every retry attempt failed; the error is swallowed
generate_turn(speaker, ok) ==
    [raised |-> FALSE, text |-> IF ok THEN "gen" ELSE _bridge_phrase(speaker)]

\* lines 817-833: generate_turn (network), then the branch on the output mode
CycGenerate(ok) ==
    /\ Alive /\ cyc = "generate"
    /\ LET r == generate_turn(loc.speaker, ok)
       IN IF r.raised
          THEN loc' = loc /\ cyc' = "raised"
          ELSE /\ loc' = [loc EXCEPT !.text = r.text]
               /\ cyc' = IF text_only \/ streaming_mode THEN "build" ELSE "tts"
    /\ access' = {}
    /\ UNCHANGED <<sharedVars, lock, stop_event, turns, enqueued>>
    /\ UNCHANGED CycUnch
    /\ Outcome(ok)

\* lines 835-848: speech synthesis (network); failure -> bridge phrase, no audio
CycTTS(ok) ==
    /\ Alive /\ cyc = "tts"
    /\ loc' = IF ok
              THEN [loc EXCEPT !.audio_path = "audio", !.duration_est_s = "zero"]
              ELSE [loc EXCEPT !.text = _bridge_phrase(loc.speaker),
                               !.audio_path = "",
                               !.duration_est_s = "est"]
    /\ cyc' = IF video_mode THEN "video" ELSE "build"
    /\ access' = {}
    /\ UNCHANGED <<sharedVars, lock, stop_event, turns, enqueued>>
    /\ UNCHANGED CycUnch
    /\ Outcome(ok)

\* the services _render_video_for_turn calls, in order (lines 486-539)
HeygenSteps == <<"upload", "render", "poll", "download">>

\* a cache test that never finds the file
CachedNever(turn_id) == FALSE

\* lines 850-851: a non-empty file exists at the expected path
Cached(turn_id) == turn_id \in video_files

\* lines 849-859: the cached video, or upload/render/poll/download (network).
\* upto: the number of services called before the render ends (4: all of
\* them succeed; less: the last one called exhausts its retries and the
\* error is re-raised out of prefetch_next); partial: a failed download
\* leaves a non-empty file (heygen.py 210-213). Without an audio file the
\* upload cannot open it (heygen.py 86) and fails whatever the service does.
CycVideo(upto, partial) ==
    /\ Alive /\ cyc = "video"
    /\ LET id == loc.next_turn_id
           called == {HeygenSteps[i] : i \in 1..upto}
       IN IF Cached(id)
          THEN /\ upto = 0 /\ ~partial
               /\ loc' = [loc EXCEPT !.video_path = "video"]
               /\ cyc' = "build"
               /\ UNCHANGED <<video_files, partial_files, faults>>
          ELSE IF loc.audio_path = ""
          THEN /\ upto = 1 /\ ~partial
               /\ loc' = [loc EXCEPT !.heygen_calls = called]
               /\ cyc' = "raised"
               /\ UNCHANGED <<video_files, partial_files, faults>>
          ELSE /\ upto >= 1
               /\ partial => upto = 4
               /\ IF upto = 4 /\ ~partial
                  THEN /\ loc' = [loc EXCEPT !.video_path = "video",
                                             !.heygen_calls = called]
                       /\ cyc' = "build"
                       /\ video_files' = video_files \cup {id}
                       /\ partial_files' = partial_files \ {id}
                       /\ Outcome(TRUE)
                  ELSE /\ loc' = [loc EXCEPT !.heygen_calls = called]
                       /\ cyc' = "raised"
                       /\ video_files' = IF partial THEN video_files \cup {id}
                                                    ELSE video_files
                       /\ partial_files' = IF partial
                                           THEN partial_files \cup {id}
                                           ELSE partial_files
                       /\ Outcome(FALSE)
    /\ access' = {}
    /\ UNCHANGED <<sharedVars, lock, stop_event, turns, enqueued>>
    /\ UNCHANGED CycUnchDisk

\* lines 861-874: build the Turn object, then enter the publishing critical
\* section
CycPubAcquire ==
    /\ Alive /\ cyc = "build"
    /\ turns' = Append(turns, NewTurn(loc))
    /\ loc' = [loc EXCEPT !.turn = Len(turns) + 1]
    /\ Acquire(runner)
    /\ cyc' = "pub"
    /\ access' = {}
    /\ UNCHANGED <<sharedVars, stop_event, enqueued>>
    /\ UNCHANGED CycUnch
    /\ UNCHANGED faults

\* lines 875-882: publish counter, queue tail and history together
CycPublish ==
    /\ Alive /\ cyc = "pub"
    /\ turn_seq' = loc.next_turn_id
    /\ queue' = Append(queue, loc.turn)
    /\ enqueued' = Append(enqueued, loc.turn)
    /\ history' = HistoryCap(Append(history, [speaker |-> loc.speaker, text |-> loc.text]))
    /\ loc' = [loc EXCEPT !.history_for_sum = history',
                          !.summary_before = running_summary,
                          !.turn_count = Len(history')]
    /\ access' = Touch(runner, {"history", "running_summary"},
                               {"turn_seq", "queue", "history"})
    /\ lock' = WithExit(runner)
    /\ cyc' = "sum_check"
    /\ UNCHANGED <<running_summary, stop_event, turns>>
    /\ UNCHANGED CycUnch
    /\ UNCHANGED faults

\* lines 884, 895-896: no summary due -> summary_len of the (queued) turn
CycSumCheck ==
    /\ Alive /\ cyc = "sum_check"
    /\ IF should_summarize(loc.turn_count)
       THEN turns' = turns /\ cyc' = "summarize"
       ELSE /\ turns' = [turns EXCEPT ![loc.turn].summary_len = StrLen(loc.summary_before)]
            /\ cyc' = "returned"
    /\ access' = {}
    /\ UNCHANGED <<sharedVars, lock, stop_event, loc, enqueued>>
    /\ UNCHANGED CycUnch
    /\ UNCHANGED faults

\* lines 885-890: summarize (network, retried); it raises when retries are
\* exhausted and may return an empty text
CycSummarize(out) ==
    /\ Alive /\ cyc = "summarize"
    /\ IF out = "fail"
       THEN loc' = loc /\ cyc' = "raised"
       ELSE loc' = [loc EXCEPT !.new_summary = out] /\ cyc' = "sum_acquire"
    /\ access' = {}
    /\ UNCHANGED <<sharedVars, lock, stop_event, turns, enqueued>>
    /\ UNCHANGED CycUnch
    /\ Outcome(out = "sum")

\* line 891
CycSumAcquire ==
    /\ Alive /\ cyc = "sum_acquire"
    /\ Acquire(runner)
    /\ cyc' = "sum_store"
    /\ access' = {}
    /\ UNCHANGED <<sharedVars, stop_event, turns, loc, enqueued>>
    /\ UNCHANGED CycUnch
    /\ UNCHANGED faults

\* a store that does not test the new summary
StoreSummaryAlways(new_summary, old) == new_summary

\* lines 892-893: `if new_summary: self.running_summary = new_summary`
StoreSummary(new_summary, old) == IF new_summary # "" THEN new_summary ELSE old

\* lines 892-893: replace the running summary
CycSumStore ==
    /\ Alive /\ cyc = "sum_store"
    /\ running_summary' = StoreSummary(loc.new_summary, running_summary)
    /\ access' = Touch(runner, {}, IF loc.new_summary # "" THEN {"running_summary"} ELSE {})
    /\ lock' = WithExit(runner)
    /\ cyc' = "sum_len"
    /\ UNCHANGED <<queue, turn_seq, history, stop_event, turns, loc, enqueued>>
    /\ UNCHANGED CycUnch
    /\ UNCHANGED faults

\* line 894: summary_len of the (queued) turn, read of running_summary
CycSumLen ==
    /\ Alive /\ cyc = "sum_len"
    /\ turns' = [turns EXCEPT ![loc.turn].summary_len = StrLen(running_summary)]
    /\ access' = Touch(runner, {"running_summary"}, {})
    /\ cyc' = "returned"
    /\ UNCHANGED <<sharedVars, lock, stop_event, loc, enqueued>>
    /\ UNCHANGED CycUnch
    /\ UNCHANGED faults

\* ------------------------------------------------- _prefetch_loop (thread)
ThreadUnchLoc == <<avatar_mode, max_turns, min_queue_items, prebuffer_total,
                   queue, turn_seq, history, running_summary, stop_event, turns,
                   video_files, partial_files, transcript, last_scene,
                   obs_scene, last_stage, media, playing, obs_calls, mpc, generated,
                   errors, cur, enqueued, dequeued, partVars>>
ThreadUnch == <<ThreadUnchLoc, loc>>

\* a handler that lets the error end the thread
HandlerExits == "exited"

\* where the loop goes after the except-handler of lines 903-905
HandlerTarget == "sleep_err"

\* line 899: the loop condition; the stop flag is the only way out
LoopExit ==
    /\ Alive /\ tpc = "loop_top"
    /\ stop_event
    /\ tpc' = "exited"
    /\ access' = {}
    /\ UNCHANGED <<lock, runner, cyc>>
    /\ UNCHANGED ThreadUnch
    /\ UNCHANGED faults

\* lines 899-900, 391-392: the loop goes on and _queue_len takes the lock
QlenAcquire ==
    /\ Alive /\ tpc = "loop_top"
    /\ ~stop_event
    /\ max_turns > 0 \/ turn_seq < MaxSeq
    /\ Acquire("prefetch")
    /\ tpc' = "qlen"
    /\ access' = {}
    /\ UNCHANGED <<runner, cyc>>
    /\ UNCHANGED ThreadUnch
    /\ UNCHANGED faults

\* lines 393, 900-902, 906: below the floor -> one cycle, else idle-wait
QlenRead ==
    /\ Alive /\ tpc = "qlen"
    /\ access' = Touch("prefetch", {"queue"}, {})
    /\ lock' = WithExit("prefetch")
    /\ IF BelowFloor(Len(queue))
       THEN tpc' = "call" /\ runner' = "prefetch" /\ cyc' = "start"
       ELSE tpc' = "sleep_idle" /\ UNCHANGED <<runner, cyc>>
    /\ UNCHANGED ThreadUnch
    /\ UNCHANGED faults

\* line 902: prefetch_next returned normally
LoopCycleReturn ==
    /\ Alive /\ tpc = "call" /\ runner = "prefetch" /\ cyc = "returned"
    /\ tpc' = "loop_top"
    /\ runner' = "none" /\ cyc' = "none" /\ loc' = NoLoc
    /\ access' = {}
    /\ UNCHANGED lock
    /\ UNCHANGED ThreadUnchLoc
    /\ UNCHANGED faults

\* lines 903-904: any exception of the cycle is caught
LoopCycleRaise ==
    /\ Alive /\ tpc = "call" /\ runner = "prefetch" /\ cyc = "raised"
    /\ tpc' = HandlerTarget
    /\ runner' = "none" /\ cyc' = "none" /\ loc' = NoLoc
    /\ access' = {}
    /\ UNCHANGED lock
    /\ UNCHANGED ThreadUnchLoc
    /\ UNCHANGED faults

\* line 905: time.sleep(1.0) after an error
LoopSleepErr ==
    /\ Alive /\ tpc = "sleep_err"
    /\ tpc' = "loop_top"
    /\ access' = {}
    /\ UNCHANGED <<lock, runner, cyc>>
    /\ UNCHANGED ThreadUnch
    /\ UNCHANGED faults

\* line 907: time.sleep(0.2) at / above the floor
LoopSleepIdle ==
    /\ Alive /\ tpc = "sleep_idle"
    /\ tpc' = "loop_top"
    /\ access' = {}
    /\ UNCHANGED <<lock, runner, cyc>>
    /\ UNCHANGED ThreadUnch
    /\ UNCHANGED faults

\* ------------------------------------------------- run_forever: prebuffer
MainUnchLoc == <<avatar_mode, max_turns, min_queue_items, prebuffer_total,
                 queue, turn_seq, history, running_summary, lock, stop_event,
                 turns, video_files, partial_files, transcript, last_scene,
                 obs_scene, last_stage, media, playing, obs_calls, cur,
                 enqueued, dequeued, partVars>>
MainUnch == <<MainUnchLoc, loc>>

\* lines 1060-1067: while generated < total and not stopped: prefetch_next()
PrebufCheck ==
    /\ mpc = "prebuf_check"
    /\ max_turns > 0 \/ turn_seq < MaxSeq \/ generated >= prebuffer_total
    /\ IF prebuffer_total > 0 /\ generated < prebuffer_total /\ ~stop_event
       THEN mpc' = "prebuf_call" /\ runner' = "main" /\ cyc' = "start"
       ELSE mpc' = "start_prefetch" /\ UNCHANGED <<runner, cyc>>
    /\ access' = {}
    /\ UNCHANGED <<tpc, generated, errors>>
    /\ UNCHANGED MainUnch
    /\ UNCHANGED faults

\* line 1068
PrebufReturn ==
    /\ mpc = "prebuf_call" /\ runner = "main" /\ cyc = "returned"
    /\ generated' = generated + 1
    /\ mpc' = "prebuf_check"
    /\ runner' = "none" /\ cyc' = "none" /\ loc' = NoLoc
    /\ access' = {}
    /\ UNCHANGED <<tpc, errors>>
    /\ UNCHANGED MainUnchLoc
    /\ UNCHANGED faults

\* lines 1069-1074: count the error, give up prebuffering after max_errors
PrebufRaise ==
    /\ mpc = "prebuf_call" /\ runner = "main" /\ cyc = "raised"
    /\ errors' = errors + 1
    /\ mpc' = IF errors + 1 >= MaxErrorsCfg THEN "start_prefetch" ELSE "prebuf_sleep"
    /\ runner' = "none" /\ cyc' = "none" /\ loc' = NoLoc
    /\ access' = {}
    /\ UNCHANGED <<tpc, generated>>
    /\ UNCHANGED MainUnchLoc
    /\ UNCHANGED faults

\* line 1075: time.sleep(retry_sleep)
PrebufSleep ==
    /\ mpc = "prebuf_sleep"
    /\ mpc' = "prebuf_check"
    /\ access' = {}
    /\ UNCHANGED <<tpc, runner, cyc, generated, errors>>
    /\ UNCHANGED MainUnch
    /\ UNCHANGED faults

\* lines 909-913, 1090: start the prefetch thread, enter the playback loop
StartPrefetch ==
    /\ mpc = "start_prefetch"
    /\ tpc' = "loop_top"
    /\ mpc' = "play_acquire"
    /\ access' = {}
    /\ UNCHANGED <<runner, cyc, generated, errors>>
    /\ UNCHANGED MainUnch
    /\ UNCHANGED faults

\* ------------------------------------------------- play_next
PlayUnch == <<avatar_mode, max_turns, min_queue_items, prebuffer_total,
              turn_seq, history, running_summary, stop_event, runner, cyc,
              loc, tpc, generated, errors, enqueued, video_files, partial_files,
              partVars>>

\* the media file play_next hands to the presentation surface (lines 935-946)
MediaPath(t) == IF video_mode THEN t.video_file ELSE t.audio_file

\* play_next leaves early, before any scene change (lines 939-944)
VideoMissing(t) == video_mode /\ t.video_file = ""

\* line 916
PlayAcquire ==
    /\ mpc = "play_acquire"
    /\ Acquire("main")
    /\ mpc' = "play_dequeue"
    /\ access' = {}
    /\ UNCHANGED <<queue, turns, transcript, last_scene, obs_scene, last_stage, media, playing, cur, dequeued>>
    /\ obs_calls' = <<>>
    /\ UNCHANGED PlayUnch
    /\ UNCHANGED faults

\* lines 917-920: take the head of the queue, or nothing
PlayDequeue ==
    /\ mpc = "play_dequeue"
    /\ IF queue = <<>>
       THEN /\ cur' = 0 /\ queue' = queue /\ dequeued' = dequeued
            /\ access' = Touch("main", {"queue"}, {})
            /\ mpc' = "idle"
       ELSE /\ cur' = PopLeft(queue).item
            /\ queue' = PopLeft(queue).rest
            /\ dequeued' = Append(dequeued, PopLeft(queue).item)
            /\ access' = Touch("main", {"queue"}, {"queue"})
            /\ mpc' = "present"
    /\ lock' = WithExit("main")
    /\ UNCHANGED <<turns, transcript, last_scene, obs_scene, last_stage, media, playing>>
    /\ obs_calls' = <<>>
    /\ UNCHANGED PlayUnch
    /\ UNCHANGED faults

\* the idle branch switches the scene only when the memoized scene differs
IdleSceneDueUnmemoized == ~text_only /\ last_scene = "none"

\* an idle branch without the memo
IdleSceneDueAlways == ~text_only

\* line 923: the guard of the idle-scene switch
IdleSceneDue == ~text_only /\ last_scene # "SCENE_IDLE"

\* the calls of the presentation surface play_next makes
SurfaceOps == {"set_media_file", "set_scene", "set_overlay", "highlight",
               "send_task", "restart_media"}

\* one call of the presentation surface: the operation, the scene or the
\* file (turn id) it is given, and whether it succeeds
Call(op, scene, file, ok) == [op |-> op, scene |-> scene, file |-> file, ok |-> ok]

\* a handler that lets the error of an auxiliary update out of play_next
AuxHandlerRaises == "raise"

\* lines 924-929, 958-963, 969-985: overlay and highlight updates are
\* wrapped in try/except that prints a warning
AuxHandler == "continue"

\* lines 947-950, 965-968: so is set_media_file
AssignHandler == "continue"

\* the failure of this call leaves play_next as an exception
Fatal(op) ==
    \/ op \in {"set_scene", "send_task", "restart_media"}
    \/ op \in {"set_overlay", "highlight"} /\ AuxHandler = "raise"
    \/ op = "set_media_file" /\ AssignHandler = "raise"

\* the calls made, of those the code would make in this order when those of
\* fails fail: up to the first whose failure is not caught
Made(ops, fails) ==
    LET fatal == {i \in 1..Len(ops) : ops[i] \in fails /\ Fatal(ops[i])}
    IN IF fatal = {} THEN ops
       ELSE SubSeq(ops, 1, CHOOSE i \in fatal : \A j \in fatal : i <= j)

Raised(made, fails) ==
    made # <<>> /\ made[Len(made)] \in fails /\ Fatal(made[Len(made)])

Did(made, fails, op) == op \notin fails /\ \E i \in 1..Len(made) : made[i] = op

\* lines 922-931: empty queue -> idle scene; the stage shown is derived from
\* turn_seq while no stage has been memoized; the overlay update is best
\* effort, set_scene may raise. fails: the calls that fail if made
PlayIdle(fails) ==
    /\ mpc = "idle"
    /\ Cardinality(fails) <= faults
    /\ LET ops == IF IdleSceneDue THEN <<"set_overlay", "set_scene">> ELSE <<>>
           made == Made(ops, fails)
       IN /\ fails \subseteq Range(made)
          /\ access' = IF IdleSceneDue /\ last_stage = "none"
                       THEN Touch("main", {"turn_seq"}, {})
                       ELSE {}
          /\ last_scene' = IF Did(made, fails, "set_scene")
                           THEN "SCENE_IDLE" ELSE last_scene
          /\ obs_scene' = IF Did(made, fails, "set_scene")
                          THEN "SCENE_IDLE" ELSE obs_scene
          /\ mpc' = IF Raised(made, fails) THEN "crashed" ELSE "idle_sleep"
          /\ obs_calls' = [i \in 1..Len(made) |->
                             Call(made[i],
                                  IF made[i] = "set_scene" THEN "SCENE_IDLE" ELSE "",
                                  0, made[i] \notin fails)]
    /\ faults' = faults - Cardinality(fails)
    /\ UNCHANGED <<queue, lock, turns, transcript, last_stage, media, playing,
                   cur, dequeued>>
    /\ UNCHANGED PlayUnch

\* lines 932-933: time.sleep(idle_sleep_s); return None
PlayIdleSleep ==
    /\ mpc = "idle_sleep"
    /\ mpc' = "play_acquire"
    /\ access' = {}
    /\ UNCHANGED <<queue, lock, turns, transcript, last_scene, obs_scene, last_stage, media, playing, cur, dequeued>>
    /\ obs_calls' = obs_calls
    /\ UNCHANGED PlayUnch
    /\ UNCHANGED faults

\* line 935, 945: the media source of the turn
MediaInput(t) ==
    IF video_mode
    THEN IF t.speaker = "A" THEN "VIDEO_PLAYER_A" ELSE "VIDEO_PLAYER_B"
    ELSE "AUDIO_PLAYER"

\* line 952: `if self._last_scene != next_scene`
SceneSwitchDue(next_scene) == last_scene # next_scene

\* lines 935-1031: drive the presentation surface for the dequeued turn, in
\* the order of the code: (video) preload of the file, scene switch,
\* overlay, (audio) assignment of the file, speaker highlight, then the
\* speak task (streaming) or the restart of the media source with the wait
\* for it to play. Nothing is called in text-only mode or without a video.
\* fails: the calls that fail if made
PlayPresent(fails) ==
    /\ mpc = "present"
    /\ Cardinality(fails) <= faults
    /\ LET t == turns[cur]
           inp == MediaInput(t)
           next_scene == _scene_for_speaker(t.speaker)
           stage == IF t.turn_id <= 2 THEN "INTRO" ELSE "DISCUSSION"
           ops ==
             IF text_only \/ VideoMissing(t) THEN <<>>
             ELSE (IF video_mode THEN <<"set_media_file">> ELSE <<>>)
                  \o (IF SceneSwitchDue(next_scene) THEN <<"set_scene">> ELSE <<>>)
                  \o <<"set_overlay">>
                  \o (IF ~video_mode /\ ~streaming_mode /\ MediaPath(t) # ""
                      THEN <<"set_media_file">> ELSE <<>>)
                  \o <<"highlight">>
                  \o (IF streaming_mode THEN <<"send_task">>
                      ELSE IF MediaPath(t) = "" THEN <<>>
                      ELSE <<"restart_media">>)
           made == Made(ops, fails)
           media_now == IF Did(made, fails, "set_media_file")
                        THEN [media EXCEPT ![inp] = t.turn_id]
                        ELSE media
       IN /\ fails \subseteq Range(made)
          /\ media' = media_now
          /\ last_scene' = IF Did(made, fails, "set_scene")
                           THEN next_scene ELSE last_scene
          /\ obs_scene' = IF Did(made, fails, "set_scene")
                          THEN next_scene ELSE obs_scene
          /\ last_stage' = IF Did(made, fails, "set_overlay")
                           THEN stage ELSE last_stage
          /\ turns' = IF Did(made, fails, "send_task")
                      THEN [turns EXCEPT ![cur].stream_session_id = "session",
                                         ![cur].stream_task_id = "task",
                                         ![cur].duration_est_s = "est"]
                      ELSE turns
          /\ playing' = IF Did(made, fails, "restart_media")
                        THEN media_now[inp] ELSE playing
          /\ mpc' = IF Raised(made, fails) THEN "crashed" ELSE "transcript"
          /\ obs_calls' = [i \in 1..Len(made) |->
                             Call(made[i],
                                  IF made[i] = "set_scene" THEN next_scene ELSE "",
                                  IF made[i] = "set_media_file" THEN t.turn_id ELSE 0,
                                  made[i] \notin fails)]
    /\ faults' = faults - Cardinality(fails)
    /\ access' = {}
    /\ UNCHANGED <<queue, lock, transcript, cur, dequeued>>
    /\ UNCHANGED PlayUnch

\* lines 542-562: one transcript line with the fields of the turn as they are now
PlayTranscript ==
    /\ mpc = "transcript"
    /\ transcript' = Append(transcript, turns[cur])
    /\ mpc' = "pace"
    /\ access' = {}
    /\ UNCHANGED <<queue, lock, turns, last_scene, obs_scene, last_stage, media, playing, cur, dequeued>>
    /\ obs_calls' = obs_calls
    /\ UNCHANGED PlayUnch
    /\ UNCHANGED faults

\* the pacing wait polls the presentation surface (lines 1035-1040)
PaceFromMedia(t) ==
    ~text_only /\ ~streaming_mode /\ MediaPath(t) # ""

\* lines 943, 1012, 1017, 1033-1041: pacing wait, then return the turn;
\* probing / polling the media may raise
PlayPace(wait_ok) ==
    /\ mpc = "pace"
    /\ wait_ok \/ PaceFromMedia(turns[cur])
    /\ IF wait_ok
       THEN mpc' = "play_acquire" /\ cur' = 0
       ELSE mpc' = "crashed" /\ cur' = cur
    /\ access' = {}
    /\ UNCHANGED <<queue, lock, turns, transcript, last_scene, obs_scene, last_stage, media, playing, dequeued>>
    /\ obs_calls' = obs_calls
    /\ UNCHANGED PlayUnch
    /\ Outcome(wait_ok)

\* ------------------------------------------------- specification
Cycle ==
    \/ CycSnapAcquire
    \/ CycSnapshot
    \/ CycMaxCheck
    \/ \E ok \in BOOLEAN : CycGenerate(ok)
    \/ \E ok \in BOOLEAN : CycTTS(ok)
    \/ \E upto \in 0..4, partial \in BOOLEAN : CycVideo(upto, partial)
    \/ CycPubAcquire
    \/ CycPublish
    \/ CycSumCheck
    \/ \E out \in {"sum", "", "fail"} : CycSummarize(out)
    \/ CycSumAcquire
    \/ CycSumStore
    \/ CycSumLen

PrefetchThread ==
    \/ LoopExit
    \/ QlenAcquire
    \/ QlenRead
    \/ LoopCycleReturn
    \/ LoopCycleRaise
    \/ LoopSleepErr
    \/ LoopSleepIdle

Prebuffer ==
    \/ PrebufCheck
    \/ PrebufReturn
    \/ PrebufRaise
    \/ PrebufSleep
    \/ StartPrefetch

Playback ==
    \/ PlayAcquire
    \/ PlayDequeue
    \/ \E fails \in SUBSET SurfaceOps : PlayIdle(fails)
    \/ PlayIdleSleep
    \/ \E fails \in SUBSET SurfaceOps : PlayPresent(fails)
    \/ PlayTranscript
    \/ \E ok \in BOOLEAN : PlayPace(ok)

Next == Cycle \/ PrefetchThread \/ Prebuffer \/ Playback

Spec == Init /\ [][Next]_vars

\* ------------------------------------------------- runs without failures
\* every external call succeeds; both threads are scheduled fairly and a
\* thread waiting for the queue lock eventually gets it
CycleOk ==
    \/ CycSnapAcquire
    \/ CycSnapshot
    \/ CycMaxCheck
    \/ CycGenerate(TRUE)
    \/ CycTTS(TRUE)
    \/ CycVideo(0, FALSE)
    \/ CycVideo(4, FALSE)
    \/ CycPubAcquire
    \/ CycPublish
    \/ CycSumCheck
    \/ CycSummarize("sum")
    \/ CycSumAcquire
    \/ CycSumStore
    \/ CycSumLen

PrefetchThreadOk ==
    \/ LoopExit
    \/ QlenAcquire
    \/ QlenRead
    \/ LoopCycleReturn
    \/ LoopSleepIdle

PrebufferOk ==
    \/ PrebufCheck
    \/ PrebufReturn
    \/ StartPrefetch

PlaybackOk ==
    \/ PlayAcquire
    \/ PlayDequeue
    \/ PlayIdle({})
    \/ PlayIdleSleep
    \/ PlayPresent({})
    \/ PlayTranscript
    \/ PlayPace(TRUE)

NextLive == CycleOk \/ PrefetchThreadOk \/ PrebufferOk \/ PlaybackOk

MainStep == PrebufferOk \/ PlaybackOk \/ (runner = "main" /\ CycleOk)

PrefetchStep == PrefetchThreadOk \/ (runner = "prefetch" /\ CycleOk)

Fairness ==
    /\ WF_vars(MainStep)
    /\ WF_vars(PrefetchStep)
    /\ SF_vars(PlayAcquire)
    /\ SF_vars(QlenAcquire)
    /\ SF_vars(CycSnapAcquire)
    /\ SF_vars(CycPubAcquire)
    /\ SF_vars(CycSumAcquire)

SpecLive == Init /\ [][NextLive]_vars /\ Fairness

\* ------------------------------------------------- retry (retry.py)
\* no Orchestrator is running
OrchOff ==
    /\ avatar_mode = "text" /\ max_turns = 0 /\ min_queue_items = 1
    /\ prebuffer_total = 0
    /\ queue = <<>> /\ turn_seq = 0 /\ history = <<>> /\ running_summary = ""
    /\ lock = "free" /\ stop_event = FALSE /\ turns = <<>> /\ video_files = {}
    /\ partial_files = {}
    /\ transcript = <<>> /\ last_scene = "none" /\ last_stage = "none"
    /\ obs_scene = "unknown"
    /\ media = [i \in MediaInputs |-> 0] /\ playing = 0 /\ obs_calls = <<>>
    /\ runner = "none" /\ cyc = "none" /\ loc = NoLoc
    /\ tpc = "unstarted" /\ mpc = "off"
    /\ generated = 0 /\ errors = 0 /\ cur = 0
    /\ enqueued = <<>> /\ dequeued = <<>> /\ access = {} /\ faults = 0

MaxRetries == 3                \* the largest max_retries explored
MaxRenderRetries == 2          \* the largest HEYGEN_*_MAX_RETRIES explored
BaseDelays == {1, 3}           \* base_delay_s explored, in seconds
MaxDelays == {2, 10}           \* max_delay_s explored, in seconds
\* random.random() * 100 rounded down: any value of 0..99; the ends and
\* the middle of the range are explored
Randoms == {0, 50, 99}

RECURSIVE Pow2(_)
Pow2(n) == IF n <= 0 THEN 1 ELSE 2 * Pow2(n - 1)

Min(a, b) == IF a < b THEN a ELSE b

\* a loop that makes one attempt more
AttemptsOneMore(n) == 1..(n + 1)

\* line 16: range(1, max_retries + 1)
Attempts(n) == 1..n

\* lines 22-23, in hundredths of a second, for random.random() = r / 100:
\* the exponential delay is capped first and the jitter applied to the result
Delay(a, r) ==
    (Min(max_delay_s * 100, base_delay_s * 100 * Pow2(a - 1)) * (70 + (r * 60) \div 100)) \div 100

RetryInit ==
    /\ OrchOff
    /\ MoreOff
    /\ TopicOff
    /\ DirOff
    /\ LlmOff
    /\ max_retries \in 1..MaxRetries
    /\ base_delay_s \in BaseDelays
    /\ max_delay_s \in MaxDelays
    /\ rpc = "for" /\ attempt = 1 /\ last_err = "None" /\ ret = "None"
    /\ fn_calls = <<>> /\ slept = <<>>

RetryUnch == <<orchVars, moreVars, topicVars, dirVars, llmVars, max_retries, base_delay_s,
              max_delay_s>>

\* lines 16-20: the next attempt; fn returns a value or raises an error
RetryAttempt(ok) ==
    /\ rpc = "for" /\ attempt \in Attempts(max_retries)
    /\ fn_calls' = Append(fn_calls, IF ok THEN "ok" ELSE <<"error", attempt>>)
    /\ IF ok
       THEN rpc' = "returned" /\ ret' = "value" /\ last_err' = last_err
       ELSE rpc' = "except" /\ ret' = ret /\ last_err' = <<"error", attempt>>
    /\ UNCHANGED <<attempt, slept>>
    /\ UNCHANGED RetryUnch

\* lines 22-25: the backoff sleep of the except-handler, then the next
\* value of the loop variable
RetrySleep(r) ==
    /\ rpc = "except"
    /\ slept' = Append(slept, [after |-> attempt, cs |-> Delay(attempt, r)])
    /\ attempt' = attempt + 1
    /\ rpc' = "for"
    /\ UNCHANGED <<last_err, ret, fn_calls>>
    /\ UNCHANGED RetryUnch

\* line 26: the loop is exhausted
RetryRaise ==
    /\ rpc = "for" /\ attempt \notin Attempts(max_retries)
    /\ rpc' = "raised" /\ ret' = last_err
    /\ UNCHANGED <<attempt, last_err, fn_calls, slept>>
    /\ UNCHANGED RetryUnch

RetryNext ==
    \/ \E ok \in BOOLEAN : RetryAttempt(ok)
    \/ \E r \in Randoms : RetrySleep(r)
    \/ RetryRaise

RetrySpec == RetryInit /\ [][RetryNext]_vars

\* ------------------------------------------------- TopicProvider (topic.py)
MaxClock == 4                  \* seconds the clock advances in a run
ReloadCfg == 2                 \* TopicConfig.reload_s explored
Ttls == {0, 1, 2}              \* ttl_s explored
Epoch == 100                   \* time.time() when the provider is built
DefaultTopic == "default"      \* the hard-coded topic of lines 55 and 63

\* str.strip() on the strings explored
Strip(str) ==
    CASE str = " " -> ""
      [] str = " X " -> "X"
      [] str = " E " -> "E"
      [] str = "F\n" -> "F"
      [] OTHER -> str

\* truth value of an Optional[str] and of an Optional[float] in a condition
Truthy(v) == v \notin {None, ""}
TruthyNum(v) == v \notin {NoneNum, 0}

\* a or b, on Optional[str]
Or(a, b) == IF Truthy(a) THEN a ELSE b

\* an expiry test that still holds at the expiry itself
UnexpiredAtExpiry(t, expires_at) == t <= expires_at

\* line 35: now < self._override_expires_at
Unexpired(t, expires_at) == t < expires_at

\* lines 24-31; a blank topic changes nothing
set_override(p, topic, ttl_s, source, author) ==
    LET t == Strip(Or(topic, ""))
    IN IF ~Truthy(t)
       THEN p
       ELSE [p EXCEPT !._override_topic = t,
                      !._override_expires_at = now + ttl_s,
                      !._override_source = source,
                      !._override_author = author]

\* lines 35-41: the live override is returned; an expired one is cleared
OverrideLive(p) ==
    /\ Truthy(p._override_topic) /\ TruthyNum(p._override_expires_at)
    /\ Unexpired(now, p._override_expires_at)

ClearExpired(p) ==
    IF Truthy(p._override_topic) /\ TruthyNum(p._override_expires_at)
          /\ now >= p._override_expires_at
    THEN [p EXCEPT !._override_topic = None, !._override_expires_at = NoneNum,
                   !._override_source = None, !._override_author = None]
    ELSE p

\* lines 52-63: look at the topic file; the object after it and the result
FromFile(p) ==
    LET q == [p EXCEPT !._last_check = now]
    IN IF ~topic_file.exists
       THEN LET c == Or(q._cached, DefaultTopic)
            IN [obj |-> [q EXCEPT !._cached = c], val |-> c]
       ELSE LET r == IF q._last_mtime = NoneNum \/ topic_file.mtime # q._last_mtime
                     THEN [q EXCEPT !._last_mtime = topic_file.mtime,
                                    !._cached = Or(Strip(topic_file.text), q._cached)]
                     ELSE q
            IN [obj |-> r, val |-> Or(r._cached, DefaultTopic)]

\* lines 33-63: the object after the call and the value returned
get(p) ==
    IF OverrideLive(p)
    THEN [obj |-> p, val |-> p._override_topic]
    ELSE LET q == ClearExpired(p)
         IN IF Truthy(env_topic)
            THEN [obj |-> [q EXCEPT !._cached = Strip(env_topic)],
                  val |-> Strip(env_topic)]
            ELSE IF Truthy(q._cached) /\ (now - q._last_check) < ReloadCfg
            THEN [obj |-> q, val |-> q._cached]
            ELSE FromFile(q)

TopicInit ==
    /\ OrchOff
    /\ MoreOff
    /\ RetryOff
    /\ DirOff
    /\ LlmOff
    /\ tp = NewTopicProvider
    /\ now = Epoch
    /\ env_topic \in {None, "", "E", " E "}
    /\ topic_file \in {[exists |-> FALSE, mtime |-> 0, text |-> ""],
                        [exists |-> TRUE, mtime |-> 50, text |-> ""],
                        [exists |-> TRUE, mtime |-> 50, text |-> "F\n"]}
    /\ installed = NotInstalled
    /\ got = NotCalled

TopicUnch == <<orchVars, moreVars, retryVars, dirVars, llmVars, env_topic, topic_file>>

\* the chat watcher installs an override (orchestrator.py 380-382)
SetOverride(topic, ttl_s) ==
    /\ tp' = set_override(tp, topic, ttl_s, "youtube", "viewer")
    /\ installed' = IF ~Truthy(Strip(topic))
                    THEN installed
                    ELSE [set |-> TRUE, topic |-> topic, at |-> now, ttl_s |-> ttl_s]
    /\ got' = NotCalled
    /\ UNCHANGED now
    /\ UNCHANGED TopicUnch

\* a caller asks for the topic (orchestrator.py 816, 925, 959)
Get ==
    /\ tp' = get(tp).obj
    /\ got' = [called |-> TRUE, val |-> get(tp).val]
    /\ UNCHANGED <<now, installed>>
    /\ UNCHANGED TopicUnch

\* one second passes
Tick ==
    /\ now < Epoch + MaxClock
    /\ now' = now + 1
    /\ got' = NotCalled
    /\ UNCHANGED <<tp, installed>>
    /\ UNCHANGED TopicUnch

TopicNext ==
    \/ \E topic \in {"", " ", "X", " X ", "Y"}, ttl_s \in Ttls : SetOverride(topic, ttl_s)
    \/ Get
    \/ Tick

TopicSpec == TopicInit /\ [][TopicNext]_vars

\* ------------------------------------------------- directives (prefetch_next 720-814)
\* A text is the set of the words in it. Words in Cyrillic are written in
\* Latin letters.
MaxDirTurn == 9                \* the last turn whose text is one of several
WindowCfg == 7                 \* the largest TEST_CLASS_WINDOW explored
MaxClassCfg == 2               \* the largest TEST_CLASS_MAX explored
DirHistoryCfg == 7             \* history_max of the snapshots explored

roundup_every_n == 6
steelman_every_n == 8
steelman_a_offset == 4
steelman_b_offset == 0
stream_intro_turn_a == 1
stream_intro_turn_b == 2
test_switch_every_n == 4
obs_interp_block == 4
final_round_a == 21
final_round_b == 22
StreamClosingTurnDefault == 23

_method_keywords ==
    {"ekranir", "kontrol", "shum", "pomeh", "pogresh", "konfund", "sred",
     "vakuum", "izolya"}

_repeat_terms ==
    {"epigenetich", "epigeneticheck", "senesc", "mitohondr", "proteostaz",
     "vospal", "immun", "stvolov", "metabol", "povrezhden"}

test_cycle ==
    <<"epigenetic clocks", "senescence markers", "mitochondrial function",
      "proteostasis", "inflammaging/immune", "stem cell exhaustion",
      "metabolic rate">>

\* lines 235-243: label and "any" keywords, in the order they are tried
_test_class_specs ==
    <<[label |-> "epigenetic clocks",
       any |-> {"epigenet", "epigenetic", "clock", "metilir", "metil"}],
      [label |-> "senescence markers",
       any |-> {"senesc", "senescence", "p16", "p21", "sasp"}],
      [label |-> "mitochondrial function",
       any |-> {"mitohond", "mitochond", "ros", "oxidative", "okisl"}],
      [label |-> "proteostasis",
       any |-> {"proteostaz", "proteostasis", "autophagy", "autofag"}],
      [label |-> "inflammaging/immune",
       any |-> {"vospal", "inflamm", "immune", "immun", "cytokine", "citok"}],
      [label |-> "stem cell exhaustion",
       any |-> {"stvolov", "stem cell", "stem", "kletoch"}],
      [label |-> "metabolic rate",
       any |-> {"metabol", "metabolic", "insulin", "igf", "mTOR", "rapamycin",
                "metform"}]>>

\* the labels in the order sorted() gives them
SortedLabels ==
    <<"epigenetic clocks", "inflammaging/immune", "metabolic rate",
      "mitochondrial function", "proteostasis", "senescence markers",
      "stem cell exhaustion">>

\* str.lower() on the words explored
Lower(w) ==
    CASE w = "Clock" -> "clock"
      [] w = "ROS" -> "ros"
      [] w = "KONTROL" -> "kontrol"
      [] w = "mTOR" -> "mtor"
      [] OTHER -> w

\* k in w, for a keyword k and a lower-case word w: the word itself or a
\* part of it
InWord(k, w) ==
    \/ k = w
    \/ <<k, w>> \in {<<"immun", "immune">>, <<"stem", "stem cell">>,
                      <<"shum", "shumovoy">>}

\* k in text.lower()
InLower(k, text) == \E w \in text : InWord(k, Lower(w))

\* a test that is content with the last entry alone
_is_methodology_loop_last(hist) ==
    /\ Len(hist) >= 2
    /\ \E k \in _method_keywords : InLower(k, hist[Len(hist)].text)

\* lines 635-643
_is_methodology_loop(hist) ==
    /\ Len(hist) >= 2
    /\ \E k \in _method_keywords : InLower(k, hist[Len(hist)].text)
    /\ \E k \in _method_keywords : InLower(k, hist[Len(hist) - 1].text)

\* lines 645-650
_is_term_repeat_loop(hist) ==
    /\ Len(hist) >= 2
    /\ \E t \in _repeat_terms :
          /\ InLower(t, hist[Len(hist)].text)
          /\ InLower(t, hist[Len(hist) - 1].text)

\* lines 652-656
_used_discriminator_phrase(hist) ==
    /\ hist # <<>>
    /\ InLower("razlichaet", hist[Len(hist)].text)
    /\ InLower("potomu chto", hist[Len(hist)].text)

\* lines 658-668: the label of the first class one of whose keywords is in
\* the lower-cased text, or None
RECURSIVE ClassifyFrom(_, _)
ClassifyFrom(text, i) ==
    IF i > Len(_test_class_specs) THEN None
    ELSE IF \E k \in _test_class_specs[i].any : InLower(k, text)
    THEN _test_class_specs[i].label
    ELSE ClassifyFrom(text, i + 1)

_classify_test(text) == ClassifyFrom(text, 1)

\* lines 670-679: the labels of the classified entries of the window
_recent_test_classes(hist, window) ==
    LET recent == IF window > 0 THEN LastN(hist, window) ELSE hist
        labels == [i \in 1..Len(recent) |-> _classify_test(recent[i].text)]
    IN SelectSeq(labels, LAMBDA c : c # None)

\* list.count
Count(seq, x) == Cardinality({i \in 1..Len(seq) : seq[i] = x})

\* lines 755-757, as a set
Blocked(recent_classes) ==
    {c \in Range(recent_classes) : Count(recent_classes, c) >= test_class_max}

Rule(kind, args) == [kind |-> kind, args |-> args]

\* lines 751-771: the throttle rule and the change-of-plane rule
ThrottleRules(hist) ==
    IF test_class_window > 0 /\ test_class_max > 0
    THEN LET recent_classes == _recent_test_classes(hist, test_class_window)
             blocked_classes == SelectSeq(SortedLabels,
                                          LAMBDA c : c \in Blocked(recent_classes))
             allowed == SelectSeq([i \in 1..Len(_test_class_specs) |->
                                      _test_class_specs[i].label],
                                  LAMBDA c : c \notin Blocked(recent_classes))
         IN IF recent_classes = <<>> THEN <<>>
            ELSE (IF blocked_classes # <<>>
                  THEN <<Rule("blocked", blocked_classes \o <<"|">> \o allowed)>>
                  ELSE <<>>)
                 \o
                 (IF Count(recent_classes, "epigenetic clocks") >= test_class_max
                  THEN <<Rule("change_plane", <<>>)>>
                  ELSE <<>>)
    ELSE <<>>

\* lines 751-757: blocked_classes as the rotation rule sees it
BlockedClasses(hist) ==
    IF test_class_window > 0 /\ test_class_max > 0
    THEN Blocked(_recent_test_classes(hist, test_class_window))
    ELSE {}

\* lines 784-788: the first entry of the cycle from idx on that is not
\* blocked, or the suggestion itself when there is none
RECURSIVE ScanCycle(_, _, _, _)
ScanCycle(idx, i, blocked, suggested) ==
    IF i >= Len(test_cycle) THEN suggested
    ELSE LET cand == test_cycle[((idx + i) % Len(test_cycle)) + 1]
         IN IF cand \notin blocked THEN cand
            ELSE ScanCycle(idx, i + 1, blocked, suggested)

\* lines 779-791
RotationRules(id, is_closing, hist) ==
    IF ~is_closing /\ test_switch_every_n > 0 /\ id > 1
          /\ id % test_switch_every_n = 1
    THEN LET idx == (id \div test_switch_every_n) % Len(test_cycle)
             suggested == test_cycle[idx + 1]
             blocked == BlockedClasses(hist)
         IN <<Rule("rotation",
                   <<IF blocked # {} /\ suggested \in blocked
                     THEN ScanCycle(idx, 0, blocked, suggested)
                     ELSE suggested>>)>>
    ELSE <<>>

When(cond, kind) == IF cond THEN <<Rule(kind, <<>>)>> ELSE <<>>

IsClosingNever(id) == FALSE

\* line 721
IsClosing(id) == id = stream_closing_turn

\* lines 720-814: extra_rules for the turn id of speaker, given the snapshot
BuildRules(id, speaker, hist) ==
    LET is_closing == IsClosing(id)
    IN When(~is_closing /\ roundup_every_n > 0 /\ id % roundup_every_n = 0,
            "level_shift")
       \o When(id = stream_intro_turn_a /\ speaker = "A", "intro_a")
       \o When(id = stream_intro_turn_b /\ speaker = "B", "intro_b")
       \o When(_is_methodology_loop(hist), "anti_loop")
       \o When(_is_term_repeat_loop(hist), "term_repeat")
       \o When(_used_discriminator_phrase(hist), "no_template")
       \o ThrottleRules(hist)
       \o When(~is_closing /\ id % 3 = 0, "question")
       \o When(~is_closing /\ steelman_every_n > 0 /\ speaker = "A"
                /\ id % steelman_every_n = steelman_a_offset, "steelman_a")
       \o When(~is_closing /\ steelman_every_n > 0 /\ speaker = "B"
                /\ id % steelman_every_n = steelman_b_offset, "steelman_b")
       \o RotationRules(id, is_closing, hist)
       \o When(obs_interp_block > 0
                /\ ((id - 1) \div obs_interp_block) % 2 = 0, "focus_observation")
       \o When(obs_interp_block > 0
                /\ ((id - 1) \div obs_interp_block) % 2 # 0, "focus_interpretation")
       \o When(id = final_round_a /\ speaker = "A", "final_a")
       \o When(id = final_round_b /\ speaker = "B", "final_b")
       \o When(id = stream_closing_turn, "closing")

\* the texts explored for turn id: one of the class the turn stands for in
\* the cycle, one of the first class that also has a methodology keyword,
\* and an unclassified one with a methodology keyword in capitals
ClassWords == <<"Clock", "sasp", "ROS", "autophagy", "immune", "stem cell", "insulin">>

TextsAt(id) ==
    IF id <= MaxDirTurn
    THEN {{ClassWords[((id - 1) % Len(ClassWords)) + 1]},
          {"clock", "shumovoy"},
          {"KONTROL", "mTOR"}}
    ELSE {{ClassWords[((id - 1) % Len(ClassWords)) + 1]}}

\* line 259: STREAM_CLOSING_TURN, at its default, at a turn where the
\* level-shift, question and steelman rules are due, and at one where the
\* question and rotation rules are due
ClosingTurns ==
    {StreamClosingTurnDefault, 3 * steelman_every_n, 2 * test_switch_every_n + 1}

\* the last turn a directive list is built for: the one after the closing turn
LastDirTurn == stream_closing_turn + 1

DirInit ==
    /\ OrchOff
    /\ MoreOff
    /\ RetryOff
    /\ TopicOff
    /\ LlmOff
    /\ test_class_window \in {2, WindowCfg}
    /\ test_class_max \in {1, MaxClassCfg}
    /\ stream_closing_turn \in ClosingTurns
    /\ next_turn_id = 1
    /\ history_snapshot = <<>>
    /\ extra_rules = <<>>
    /\ dpc = "rules"

DirUnch == <<orchVars, moreVars, retryVars, topicVars, llmVars,
            test_class_window, test_class_max, stream_closing_turn>>

\* lines 720-814: the directive list of the turn
DirBuild ==
    /\ dpc = "rules"
    /\ extra_rules' = BuildRules(next_turn_id, _next_speaker(next_turn_id),
                                 history_snapshot)
    /\ dpc' = "generate"
    /\ UNCHANGED <<next_turn_id, history_snapshot>>
    /\ UNCHANGED DirUnch

\* lines 817-882, 711-715: the turn gets its text and enters the history;
\* the next cycle takes its snapshot
DirTurn(text) ==
    /\ dpc = "generate"
    /\ next_turn_id < LastDirTurn
    /\ history_snapshot' =
          LastN(Append(history_snapshot,
                       [speaker |-> _next_speaker(next_turn_id), text |-> text]),
                DirHistoryCfg)
    /\ next_turn_id' = NextTurnId(next_turn_id)
    /\ extra_rules' = <<>>
    /\ dpc' = "rules"
    /\ UNCHANGED DirUnch

DirNext ==
    \/ DirBuild
    \/ \E text \in TextsAt(next_turn_id) : DirTurn(text)

DirSpec == DirInit /\ [][DirNext]_vars

\* ------------------------------------------------- _limit_sentences (llm.py)
\* A text is the sequence of its characters.
MaxTextLen == 5                \* the longest output of the model explored
MaxSentencesCfg == 2           \* the largest MAX_SENTENCES explored

Chars == {"a", " ", ".", "!"}

\* the characters of the class [.!?...] of _SENT_RE (line 90)
Terminators == {".", "!", "?", "ellipsis"}

Texts(n) == UNION {[1..k -> Chars] : k \in 0..n}

\* a text of five sentences, and the bridge phrases explored: of one
\* sentence as the built-in ones are, and a configured one of three
FiveSentences == <<"a", ".", "a", "!", " ", "a", ".", "a", ".", "a">>
BridgePhrases == {<<"a", " ", "a", ".">>, <<"a", ".", " ", "a", "!", "a", ".">>}

\* str.strip() on a sequence of characters
RECURSIVE StripLeft(_)
StripLeft(t) == IF t # <<>> /\ Head(t) = " " THEN StripLeft(Tail(t)) ELSE t

RECURSIVE StripRight(_)
StripRight(t) ==
    IF t # <<>> /\ t[Len(t)] = " " THEN StripRight(SubSeq(t, 1, Len(t) - 1)) ELSE t

StripText(t) == StripRight(StripLeft(t))

\* the last index of the run of characters, terminators or not, that
\* begins at i (i - 1 when the run is empty)
RECURSIVE RunEnd(_, _, _)
RunEnd(t, i, terminators) ==
    IF i <= Len(t) /\ ((t[i] \in Terminators) <=> terminators)
    THEN RunEnd(t, i + 1, terminators)
    ELSE i - 1

\* _SENT_RE.finditer(text): the matches of [^.!?...]+(?:[.!?...]+|$), from
\* index i on
RECURSIVE FindIter(_, _)
FindIter(t, i) ==
    IF i > Len(t) THEN <<>>
    ELSE IF t[i] \in Terminators THEN FindIter(t, i + 1)
    ELSE LET j == RunEnd(t, i, FALSE)
             k == RunEnd(t, j + 1, TRUE)
         IN <<SubSeq(t, i, k)>> \o FindIter(t, k + 1)

\* " ".join(parts)
RECURSIVE Join(_)
Join(parts) ==
    IF parts = <<>> THEN <<>>
    ELSE IF Len(parts) = 1 THEN parts[1]
    ELSE parts[1] \o <<" ">> \o Join(Tail(parts))

\* a slice that drops the last sentence it should keep
SliceShort(parts, n) == SubSeq(parts, 1, Min(Len(parts), n - 1))

\* parts[:n] for n > 0
Slice(parts, n) == SubSeq(parts, 1, Min(Len(parts), n))

\* llm.py 93-99
_limit_sentences(text, n) ==
    IF n <= 0 THEN StripText(text)
    ELSE LET matches == FindIter(text, 1)
             parts == SelectSeq([i \in 1..Len(matches) |-> StripText(matches[i])],
                                LAMBDA m : m # <<>>)
         IN IF parts = <<>> THEN StripText(text)
            ELSE StripText(Join(Slice(parts, n)))

\* llm.py 146-155: the stripped output of the model, or the bridge phrase
\* when the retries are exhausted, cut to MAX_SENTENCES
GeneratedText(ok) ==
    _limit_sentences(IF ok THEN StripText(output_text) ELSE bridge, max_sentences)

LlmInit ==
    /\ OrchOff
    /\ MoreOff
    /\ RetryOff
    /\ TopicOff
    /\ DirOff
    /\ output_text \in Texts(MaxTextLen) \cup {FiveSentences}
    /\ bridge \in BridgePhrases
    /\ max_sentences \in -1..MaxSentencesCfg
    /\ lpc = "start"
    /\ limited = <<>>

LlmUnch == <<orchVars, moreVars, retryVars, topicVars, dirVars, output_text, bridge,
            max_sentences>>

\* _limit_sentences(text, max_sentences), called on the text as it is
LimitSentences ==
    /\ lpc = "start"
    /\ limited' = _limit_sentences(output_text, max_sentences)
    /\ lpc' = "limit"
    /\ UNCHANGED LlmUnch

\* generate_turn(...), with a model that answers or fails
GenerateTurn(ok) ==
    /\ lpc = "start"
    /\ limited' = GeneratedText(ok)
    /\ lpc' = IF ok THEN "generated" ELSE "bridged"
    /\ UNCHANGED LlmUnch

LlmNext ==
    \/ LimitSentences
    \/ \E ok \in BOOLEAN : GenerateTurn(ok)

LlmSpec == LlmInit /\ [][LlmNext]_vars


\* ------------------------------------------------- _wait_playback_end
\* Time is counted in ticks. The start timeout (5.0 s, line 686) and the
\* maximum play time (60.0 s, line 687) are explored at these numbers of
\* ticks; one sleep of poll_ms lasts between one tick and MaxPollTicks.
StartTimeoutTicks == 2
MaxPlayTicks == 3
MaxPollTicks == 2

\* the clock value no call reaches
MaxWaitClock == StartTimeoutTicks + MaxPlayTicks + 2 * MaxPollTicks + 3

\* obs_client.py 150-160: the state get_media_status reports, the prefix
\* OBS_MEDIA_STATE_ removed and in lower case; None for an empty answer
MediaStates == {None, "opening", "playing", "paused", "stopped", "ended"}

\* orchestrator.py 592-606
_normalize_media_state(state) ==
    CASE state = None -> None
      [] state = "playing" -> "playing"
      [] state = "ended" -> "ended"
      [] state = "stopped" -> "stopped"
      [] state = "paused" -> "paused"
      [] OTHER -> state

CoreOff == OrchOff /\ RetryOff /\ TopicOff /\ DirOff /\ LlmOff

coreVars == <<orchVars, retryVars, topicVars, dirVars, llmVars>>

\* lines 683-688
WaitInit ==
    /\ CoreOff
    /\ RaceOff /\ RenderOff /\ StreamOff /\ TtsOff
    /\ wnow \in 0..1
    /\ start_t = wnow
    /\ play_start_t = NoneNum
    /\ norm = None
    /\ wpc = "poll"
    /\ seen_playing = FALSE

WaitUnch == <<coreVars, raceVars, renderVars, streamVars, ttsVars>>

\* line 695: the states that count as the start of the playback
Started(n) == n \in {"playing", "ended", "stopped"}

\* line 695-696: play_start_t after the first test of the iteration
PlayStart(ps, n, t) == IF ps = NoneNum /\ Started(n) THEN t ELSE ps

\* line 698
PlaybackOver(ps, n) == ps # NoneNum /\ n \in {"ended", "stopped"}

StartNeverTimesOut(ps, t) == FALSE

\* line 701
StartTimedOut(ps, t) == ps = NoneNum /\ (t - start_t) >= StartTimeoutTicks

\* line 704
PlayedTooLong(ps, t) == ps # NoneNum /\ (t - ps) >= MaxPlayTicks

\* lines 691-693: one poll of the source; the call may raise, and the
\* exception leaves _wait_playback_end
WaitPoll(state, ok, dt) ==
    /\ wpc = "poll"
    /\ wnow' = wnow + dt
    /\ IF ok
       THEN /\ norm' = _normalize_media_state(state)
            /\ seen_playing' = (seen_playing \/ norm' = "playing")
            /\ wpc' = "check"
       ELSE /\ wpc' = "failed"
            /\ UNCHANGED <<norm, seen_playing>>
    /\ UNCHANGED <<start_t, play_start_t, WaitUnch>>

\* lines 695-705: the four tests of one iteration
WaitCheck ==
    /\ wpc = "check"
    /\ LET ps == PlayStart(play_start_t, norm, wnow)
       IN  /\ play_start_t' = ps
           /\ wpc' = IF PlaybackOver(ps, norm) THEN "returned"
                     ELSE IF StartTimedOut(ps, wnow) THEN "raised"
                     ELSE IF PlayedTooLong(ps, wnow) THEN "returned"
                     ELSE "sleep"
    /\ UNCHANGED <<wnow, start_t, norm, seen_playing, WaitUnch>>

\* line 707
WaitSleep(dt) ==
    /\ wpc = "sleep"
    /\ wnow + dt <= MaxWaitClock
    /\ wnow' = wnow + dt
    /\ wpc' = "poll"
    /\ UNCHANGED <<start_t, play_start_t, norm, seen_playing, WaitUnch>>

WaitNext ==
    \/ \E state \in MediaStates, ok \in BOOLEAN, dt \in 0..1 :
          WaitPoll(state, ok, dt)
    \/ WaitCheck
    \/ \E dt \in 1..MaxPollTicks : WaitSleep(dt)

\* the thread that called _wait_playback_end keeps running
WaitSpec == WaitInit /\ [][WaitNext]_vars /\ WF_vars(WaitNext)


\* ------------------------------------------------- TopicProvider, two threads
\* The chat watcher thread calls set_override (orchestrator.py 380-382)
\* while another thread calls get (orchestrator.py 816); no lock is taken,
\* so the reads and writes of the attributes interleave.
MaxGets == 2                   \* calls of get in a run

\* a provider with an override installed at Epoch with ttl_s = 1
OldOverride ==
    [NewTopicProvider EXCEPT !._override_topic = "old",
                             !._override_expires_at = Epoch + 1,
                             !._override_source = "youtube",
                             !._override_author = "viewer"]

RaceInit ==
    /\ OrchOff /\ RetryOff /\ DirOff /\ LlmOff /\ WaitOff /\ RenderOff
    /\ StreamOff /\ TtsOff
    /\ tp \in {NewTopicProvider, OldOverride}
    /\ now = Epoch
    /\ env_topic = None
    /\ topic_file = [exists |-> FALSE, mtime |-> 0, text |-> ""]
    /\ installed = NotInstalled
    /\ got = NotCalled
    /\ spc = "idle" /\ gpc = "idle" /\ g_now = 0 /\ g_after = FALSE /\ gets = 0

RaceUnch == <<orchVars, retryVars, dirVars, llmVars, waitVars, renderVars,
             streamVars, ttsVars, env_topic, topic_file>>

\* topic.py 25-27: the chat watcher calls set_override; a blank topic returns
SetCall(topic, ttl_s) ==
    /\ spc = "idle"
    /\ LET t == Strip(Or(topic, ""))
       IN IF ~Truthy(t)
          THEN spc' = "returned" /\ installed' = installed
          ELSE /\ spc' = "topic"
               /\ installed' = [set |-> FALSE, topic |-> t, at |-> 0,
                                ttl_s |-> ttl_s]
    /\ UNCHANGED <<tp, now, got, gpc, g_now, g_after, gets, RaceUnch>>

\* topic.py 28-31, one assignment at a time
SetWrite ==
    /\ spc \in {"topic", "expires", "source", "author"}
    /\ tp' = CASE spc = "topic" ->
                    [tp EXCEPT !._override_topic = installed.topic]
               [] spc = "expires" ->
                    [tp EXCEPT !._override_expires_at = now + installed.ttl_s]
               [] spc = "source" -> [tp EXCEPT !._override_source = "youtube"]
               [] spc = "author" -> [tp EXCEPT !._override_author = "viewer"]
    /\ installed' = CASE spc = "expires" -> [installed EXCEPT !.at = now]
                      [] spc = "author" -> [installed EXCEPT !.set = TRUE]
                      [] OTHER -> installed
    /\ spc' = CASE spc = "topic" -> "expires"
                [] spc = "expires" -> "source"
                [] spc = "source" -> "author"
                [] spc = "author" -> "returned"
    /\ UNCHANGED <<now, got, gpc, g_now, g_after, gets, RaceUnch>>

\* topic.py 34: get is called and reads the clock
GetCall ==
    /\ gpc = "idle" /\ gets < MaxGets
    /\ gets' = gets + 1
    /\ g_now' = now
    /\ g_after' = (spc = "returned")
    /\ gpc' = "if1_topic"
    /\ got' = NotCalled
    /\ UNCHANGED <<tp, now, installed, spc, RaceUnch>>

\* topic.py 35 and 37: the three attribute reads of each condition, left to
\* right, the second and third only when the ones before were true
GetTest ==
    /\ gpc \in {"if1_topic", "if1_expires", "if1_cmp",
                "if2_topic", "if2_expires", "if2_cmp"}
    /\ gpc' = CASE gpc = "if1_topic" ->
                     IF Truthy(tp._override_topic) THEN "if1_expires"
                     ELSE "if2_topic"
                [] gpc = "if1_expires" ->
                     IF TruthyNum(tp._override_expires_at) THEN "if1_cmp"
                     ELSE "if2_topic"
                [] gpc = "if1_cmp" ->
                     IF Unexpired(g_now, tp._override_expires_at)
                     THEN "return_override" ELSE "if2_topic"
                [] gpc = "if2_topic" ->
                     IF Truthy(tp._override_topic) THEN "if2_expires"
                     ELSE "rest"
                [] gpc = "if2_expires" ->
                     IF TruthyNum(tp._override_expires_at) THEN "if2_cmp"
                     ELSE "rest"
                [] gpc = "if2_cmp" ->
                     IF g_now >= tp._override_expires_at THEN "clear_topic"
                     ELSE "rest"
    /\ UNCHANGED <<tp, now, installed, got, spc, g_now, g_after, gets, RaceUnch>>

\* topic.py 36: the override is read once more and returned
GetReturnOverride ==
    /\ gpc = "return_override"
    /\ got' = [called |-> TRUE, val |-> tp._override_topic]
    /\ gpc' = "returned"
    /\ UNCHANGED <<tp, now, installed, spc, g_now, g_after, gets, RaceUnch>>

\* topic.py 38-41, one assignment at a time
GetClear ==
    /\ gpc \in {"clear_topic", "clear_expires", "clear_source", "clear_author"}
    /\ tp' = CASE gpc = "clear_topic" -> [tp EXCEPT !._override_topic = None]
               [] gpc = "clear_expires" ->
                    [tp EXCEPT !._override_expires_at = NoneNum]
               [] gpc = "clear_source" -> [tp EXCEPT !._override_source = None]
               [] gpc = "clear_author" -> [tp EXCEPT !._override_author = None]
    /\ gpc' = CASE gpc = "clear_topic" -> "clear_expires"
                [] gpc = "clear_expires" -> "clear_source"
                [] gpc = "clear_source" -> "clear_author"
                [] gpc = "clear_author" -> "rest"
    /\ UNCHANGED <<now, installed, got, spc, g_now, g_after, gets, RaceUnch>>

\* topic.py 43-63: the topic of the environment or of the file; these lines
\* do not touch the override attributes. The reload test and _last_check use
\* the now of line 34.
GetRest ==
    /\ gpc = "rest"
    /\ LET r == IF Truthy(env_topic)
                THEN [obj |-> [tp EXCEPT !._cached = Strip(env_topic)],
                      val |-> Strip(env_topic)]
                ELSE IF Truthy(tp._cached) /\ (g_now - tp._last_check) < ReloadCfg
                THEN [obj |-> tp, val |-> tp._cached]
                ELSE FromFile(tp)
       IN  /\ tp' = [r.obj EXCEPT !._last_check =
                        IF r.obj._last_check = tp._last_check
                        THEN tp._last_check ELSE g_now]
           /\ got' = [called |-> TRUE, val |-> r.val]
    /\ gpc' = "returned"
    /\ UNCHANGED <<now, installed, spc, g_now, g_after, gets, RaceUnch>>

\* the caller of get goes on, and may call it again
GetDone ==
    /\ gpc = "returned"
    /\ gpc' = "idle"
    /\ UNCHANGED <<tp, now, installed, got, spc, g_now, g_after, gets, RaceUnch>>

\* one second passes
RaceTick ==
    /\ now < Epoch + MaxClock
    /\ now' = now + 1
    /\ UNCHANGED <<tp, installed, got, spc, gpc, g_now, g_after, gets, RaceUnch>>

RaceNext ==
    \/ \E topic \in {" ", "X"}, ttl_s \in Ttls : SetCall(topic, ttl_s)
    \/ SetWrite
    \/ GetCall
    \/ GetTest
    \/ GetReturnOverride
    \/ GetClear
    \/ GetRest
    \/ GetDone
    \/ RaceTick

RaceSpec == RaceInit /\ [][RaceNext]_vars


\* ------------------------------------------------- _render_video_for_turn
\* The render of prefetch_next (lines 853-859) followed call by call: the
\* cycle of the prefetch thread for turn 1 has reached the render, with or
\* without an audio file, and no cached video.
RenderInit ==
    /\ RetryOff /\ TopicOff /\ DirOff /\ LlmOff /\ WaitOff /\ RaceOff
    /\ StreamOff /\ TtsOff
    /\ avatar_mode = "heygen_video" /\ max_turns = 0 /\ min_queue_items = 1
    /\ prebuffer_total = 0
    /\ queue = <<>> /\ turn_seq = 0 /\ history = <<>> /\ running_summary = ""
    /\ lock = "free" /\ stop_event = FALSE /\ turns = <<>> /\ video_files = {}
    /\ partial_files = {}
    /\ transcript = <<>> /\ last_scene = "none" /\ last_stage = "none"
    /\ obs_scene = "unknown"
    /\ media = [i \in MediaInputs |-> 0] /\ playing = 0 /\ obs_calls = <<>>
    /\ runner = "prefetch" /\ cyc = "video"
    /\ loc \in {[NoLoc EXCEPT !.next_turn_id = 1, !.speaker = "A",
                              !.text = "gen", !.audio_path = "audio",
                              !.duration_est_s = "zero"],
                [NoLoc EXCEPT !.next_turn_id = 1, !.speaker = "A",
                              !.text = _bridge_phrase("A"), !.audio_path = "",
                              !.duration_est_s = "est"]}
    /\ tpc = "call" /\ mpc = "off"
    /\ generated = 0 /\ errors = 0 /\ cur = 0
    /\ enqueued = <<>> /\ dequeued = <<>> /\ access = {} /\ faults = 0
    /\ r_max \in [1..Len(HeygenSteps) -> 0..MaxRenderRetries]
    /\ character_id \in {None, "id"}
    /\ rstep = 0 /\ rattempt = 0 /\ rcalls = <<>>

RenderUnch == <<avatar_mode, max_turns, min_queue_items, prebuffer_total,
               sharedVars, lock, stop_event, turns, transcript, last_scene,
               obs_scene, last_stage, media, playing, obs_calls, runner, tpc,
               mpc, generated, errors, cur, enqueued, dequeued, access, faults,
               retryVars, topicVars, dirVars, llmVars, waitVars, raceVars,
               streamVars, ttsVars, r_max, character_id>>

\* lines 475-479: no character id for the speaker -> RuntimeError
RenderEnter ==
    /\ cyc = "video" /\ rstep = 0
    /\ IF Truthy(character_id)
       THEN rstep' = 1 /\ rattempt' = 1 /\ cyc' = cyc
       ELSE rstep' = rstep /\ rattempt' = rattempt /\ cyc' = "raised"
    /\ UNCHANGED <<loc, video_files, partial_files, rcalls, RenderUnch>>

\* retry.py 16-26 around lines 486-539: one attempt of the current service
\* call. An upload without an audio file cannot open it (heygen.py 86); a
\* download attempt that fails may have written some chunks to the final
\* path (heygen.py 207-213); the last download that succeeds leaves the file.
RenderAttempt(ok, partial) ==
    /\ cyc = "video" /\ rstep \in 1..Len(HeygenSteps)
    /\ rattempt \in Attempts(r_max[rstep])
    /\ (rstep = 1 /\ loc.audio_path = "") => ~ok
    /\ partial => (~ok /\ HeygenSteps[rstep] = "download")
    /\ rcalls' = Append(rcalls, [step |-> rstep, attempt |-> rattempt, ok |-> ok])
    /\ IF ok
       THEN /\ rattempt' = 1
            /\ rstep' = rstep + 1
            /\ IF rstep = Len(HeygenSteps)
               THEN /\ loc' = [loc EXCEPT !.video_path = "video",
                                          !.heygen_calls = Range(HeygenSteps)]
                    /\ cyc' = "build"
                    /\ video_files' = video_files \cup {loc.next_turn_id}
                    /\ partial_files' = partial_files \ {loc.next_turn_id}
               ELSE UNCHANGED <<loc, cyc, video_files, partial_files>>
       ELSE /\ rattempt' = rattempt + 1
            /\ rstep' = rstep
            /\ video_files' = IF partial THEN video_files \cup {loc.next_turn_id}
                                         ELSE video_files
            /\ partial_files' = IF partial
                                THEN partial_files \cup {loc.next_turn_id}
                                ELSE partial_files
            /\ UNCHANGED <<loc, cyc>>
    /\ UNCHANGED RenderUnch

\* retry.py 27, orchestrator.py 857-859: the attempts of the current call are
\* used up; the error leaves retry, _render_video_for_turn and prefetch_next
RenderExhausted ==
    /\ cyc = "video" /\ rstep \in 1..Len(HeygenSteps)
    /\ rattempt \notin Attempts(r_max[rstep])
    /\ cyc' = "raised"
    /\ UNCHANGED <<loc, video_files, partial_files, rstep, rattempt, rcalls,
                   RenderUnch>>

RenderNext ==
    \/ RenderEnter
    \/ \E ok \in BOOLEAN, partial \in BOOLEAN : RenderAttempt(ok, partial)
    \/ RenderExhausted
    \/ CycPubAcquire
    \/ CycPublish

RenderSpec == RenderInit /\ [][RenderNext]_vars


\* ------------------------------------------------- streaming sessions
\* The main thread in streaming mode: run_forever opens the sessions (lines
\* 1044-1050), then play_next presents turn after turn (lines 991-1013).
MaxStreamTurns == 4            \* turns play_next presents in a run

Personas == {"A", "B"}

\* how _create_stream_session ends (lines 436-466)
CreateOutcomes == {"ok", "new_failed", "fields_missing", "start_failed"}

StreamInit ==
    /\ CoreOff /\ WaitOff /\ RaceOff /\ RenderOff /\ TtsOff
    /\ stream_auth_mode \in {"api_key", "session_token"}
    /\ stream_token = None
    /\ stream_sessions = [p \in Personas |-> 0]
    /\ created = <<>> /\ sent = <<>>
    /\ stpc = "ensure" /\ st_ret = "run_forever" /\ st_turn = 1

StreamUnch == <<coreVars, waitVars, raceVars, renderVars, ttsVars,
               stream_auth_mode>>

StoredNever(sessions, agent) == FALSE

\* lines 421, 430, 432: self.stream_sessions.get(agent) is truthy
Stored(sessions, agent) == sessions[agent] # 0

\* where the caller of _ensure_stream_sessions goes on
AfterEnsure == IF st_ret = "run_forever" THEN "play" ELSE "session"

\* lines 419-422: nothing to do when both sessions are stored
EnsureEnter ==
    /\ stpc = "ensure"
    /\ stpc' = IF Stored(stream_sessions, "A") /\ Stored(stream_sessions, "B")
               THEN AfterEnsure ELSE "token"
    /\ UNCHANGED <<stream_token, stream_sessions, created, sent, st_ret,
                   st_turn, StreamUnch>>

\* lines 423-429: the token, asked of the service once in session_token mode
EnsureToken(ok) ==
    /\ stpc = "token"
    /\ IF Truthy(stream_token)
       THEN ok /\ stream_token' = stream_token /\ stpc' = "create_A"
       ELSE IF stream_auth_mode = "session_token" /\ ~ok
       THEN stream_token' = stream_token /\ stpc' = "crashed"
       ELSE /\ stream_token' = IF stream_auth_mode = "session_token"
                               THEN "session_token" ELSE "api_key"
            /\ stpc' = "create_A"
            /\ (stream_auth_mode # "session_token" => ok)
    /\ UNCHANGED <<stream_sessions, created, sent, st_ret, st_turn, StreamUnch>>

\* lines 430-433 with 436-466: the persona gets a session unless one is
\* stored; new_session may fail, answer without the fields, or start_session
\* may fail after the service has created the session
EnsureCreate(agent, out) ==
    /\ stpc = IF agent = "A" THEN "create_A" ELSE "create_B"
    /\ LET next == IF agent = "A" THEN "create_B" ELSE "write"
           id == Len(created) + 1
       IN IF Stored(stream_sessions, agent)
          THEN /\ out = "ok"
               /\ stpc' = next
               /\ UNCHANGED <<stream_sessions, created>>
          ELSE /\ created' = IF out = "new_failed" THEN created
                             ELSE Append(created, [agent |-> agent,
                                                   session_id |-> id])
               /\ IF out = "ok"
                  THEN /\ stream_sessions' =
                             [stream_sessions EXCEPT ![agent] = id]
                       /\ stpc' = next
                  ELSE /\ stream_sessions' = stream_sessions
                       /\ stpc' = "crashed"
    /\ UNCHANGED <<stream_token, sent, st_ret, st_turn, StreamUnch>>

\* line 434: the sessions file
EnsureWrite(ok) ==
    /\ stpc = "write"
    /\ stpc' = IF ok THEN AfterEnsure ELSE "crashed"
    /\ UNCHANGED <<stream_token, stream_sessions, created, sent, st_ret,
                   st_turn, StreamUnch>>

\* lines 991-992: play_next, streaming branch, for the next turn
StreamPlay ==
    /\ stpc = "play" /\ st_turn <= MaxStreamTurns
    /\ stpc' = "ensure" /\ st_ret' = "play_next"
    /\ UNCHANGED <<stream_token, stream_sessions, created, sent, st_turn,
                   StreamUnch>>

\* lines 993-995
StreamSession ==
    /\ stpc = "session"
    /\ stpc' = IF Stored(stream_sessions, _next_speaker(st_turn))
               THEN "send" ELSE "crashed"
    /\ UNCHANGED <<stream_token, stream_sessions, created, sent, st_ret,
                   st_turn, StreamUnch>>

\* lines 996-1013: the speak task, whose answer may carry no task id, then
\* the transcript and the wait
StreamSend(ok, task_id) ==
    /\ stpc = "send"
    /\ IF ok
       THEN /\ sent' = Append(sent,
                        [turn_id |-> st_turn,
                         speaker |-> _next_speaker(st_turn),
                         session_id |-> stream_sessions[_next_speaker(st_turn)],
                         task_id |-> task_id])
            /\ st_turn' = st_turn + 1
            /\ stpc' = "play"
       ELSE /\ task_id = ""
            /\ stpc' = "crashed"
            /\ UNCHANGED <<sent, st_turn>>
    /\ UNCHANGED <<stream_token, stream_sessions, created, st_ret, StreamUnch>>

StreamNext ==
    \/ EnsureEnter
    \/ \E ok \in BOOLEAN : EnsureToken(ok)
    \/ \E agent \in Personas, out \in CreateOutcomes : EnsureCreate(agent, out)
    \/ \E ok \in BOOLEAN : EnsureWrite(ok)
    \/ StreamPlay
    \/ StreamSession
    \/ \E ok \in BOOLEAN, task_id \in {"", "task"} : StreamSend(ok, task_id)

StreamSpec == StreamInit /\ [][StreamNext]_vars


\* ------------------------------------------------- TTS.speak (tts.py)
\* The synthesis of one turn in png or video mode (orchestrator.py 835-847).
\* In video mode a cycle whose render fails is run again for the same turn,
\* and speaks again to the same path.
MaxSpeaks == 2                 \* cycles run for the turn
TtsRetries == 2                \* attempts of retry(_call) explored (default 5)

\* a file: nothing, the first chunks of the audio of call c, or all of it
NoFile == [content |-> "none", by |-> 0]
PartialFile(c) == [content |-> "partial", by |-> c]
CompleteFile(c) == [content |-> "complete", by |-> c]

with_suffix_same(out) == out

\* tts.py 27: tmp = out.with_suffix(out.suffix + ".tmp")
with_suffix(out) == "tmp"

TtsInit ==
    /\ CoreOff /\ WaitOff /\ RaceOff /\ RenderOff /\ StreamOff
    /\ files \in {[out |-> NoFile, tmp |-> NoFile],
                  [out |-> NoFile, tmp |-> PartialFile(0)],
                  [out |-> CompleteFile(0), tmp |-> NoFile]}
    /\ ttspc = "idle" /\ tts_attempt = 0 /\ speaks = 0
    /\ audio_path = None /\ audio_file = None

TtsUnch == <<coreVars, waitVars, raceVars, renderVars, streamVars>>

\* orchestrator.py 840-842, tts.py 24-36
SpeakCall ==
    /\ ttspc = "idle" /\ speaks < MaxSpeaks
    /\ speaks' = speaks + 1
    /\ audio_path' = "out"
    /\ tts_attempt' = 1
    /\ ttspc' = "attempt"
    /\ UNCHANGED <<files, audio_file, TtsUnch>>

\* tts.py 38-57 inside retry: the request fails before anything is written,
\* or stream_to_file opens the temporary file and writes the first chunks
SpeakStream(ok) ==
    /\ ttspc = "attempt" /\ tts_attempt \in Attempts(TtsRetries)
    /\ IF ok
       THEN /\ files' = [files EXCEPT ![with_suffix("out")] = PartialFile(speaks)]
            /\ ttspc' = "streaming"
            /\ tts_attempt' = tts_attempt
       ELSE /\ files' = files
            /\ ttspc' = "attempt"
            /\ tts_attempt' = tts_attempt + 1
    /\ UNCHANGED <<speaks, audio_path, audio_file, TtsUnch>>

\* the stream ends, or breaks and the attempt fails
SpeakStreamEnd(ok) ==
    /\ ttspc = "streaming"
    /\ IF ok
       THEN /\ files' = [files EXCEPT ![with_suffix("out")] = CompleteFile(speaks)]
            /\ ttspc' = "replace"
            /\ tts_attempt' = tts_attempt
       ELSE /\ files' = files
            /\ ttspc' = "attempt"
            /\ tts_attempt' = tts_attempt + 1
    /\ UNCHANGED <<speaks, audio_path, audio_file, TtsUnch>>

\* tts.py 60: os.replace(tmp, out)
SpeakReplace(ok) ==
    /\ ttspc = "replace"
    /\ IF ok
       THEN /\ files' = IF with_suffix("out") = "out" THEN files
                        ELSE [files EXCEPT !["out"] = files[with_suffix("out")],
                                           ![with_suffix("out")] = NoFile]
            /\ ttspc' = "returned"
            /\ audio_path' = audio_path
       ELSE /\ files' = files
            /\ ttspc' = "raised"
            /\ audio_path' = ""
    /\ UNCHANGED <<tts_attempt, speaks, audio_file, TtsUnch>>

\* retry.py 27, orchestrator.py 843-848: the attempts are used up; the
\* cycle goes on without audio
SpeakExhausted ==
    /\ ttspc = "attempt" /\ tts_attempt \notin Attempts(TtsRetries)
    /\ ttspc' = "raised"
    /\ audio_path' = ""
    /\ UNCHANGED <<files, tts_attempt, speaks, audio_file, TtsUnch>>

\* orchestrator.py 861-876: the turn is enqueued with audio_path
TtsEnqueue ==
    /\ ttspc \in {"returned", "raised"}
    /\ audio_file' = audio_path
    /\ ttspc' = "enqueued"
    /\ UNCHANGED <<files, tts_attempt, speaks, audio_path, TtsUnch>>

\* orchestrator.py 853-859: the render fails and the cycle is left; the next
\* cycle prepares the same turn
TtsCycleRaised ==
    /\ ttspc \in {"returned", "raised"}
    /\ ttspc' = "idle"
    /\ audio_path' = None
    /\ UNCHANGED <<files, tts_attempt, speaks, audio_file, TtsUnch>>

TtsNext ==
    \/ SpeakCall
    \/ \E ok \in BOOLEAN : SpeakStream(ok)
    \/ \E ok \in BOOLEAN : SpeakStreamEnd(ok)
    \/ \E ok \in BOOLEAN : SpeakReplace(ok)
    \/ SpeakExhausted
    \/ TtsEnqueue
    \/ TtsCycleRaised

TtsSpec == TtsInit /\ [][TtsNext]_vars

\* ------------------------------------------------- properties
TurnId(o) == turns[o].turn_id

NoRepeat(s) == \A i, j \in 1..Len(s) : i # j => s[i] # s[j]

\* C1: turns are dequeued in strictly increasing sequence-number order, and
\* of two enqueued turns n < m, m is never dequeued unless n was dequeued
\* before it.
C1_FifoOrder ==
    /\ \A i, j \in 1..Len(dequeued) :
          i < j => TurnId(dequeued[i]) < TurnId(dequeued[j])
    /\ \A i \in 1..Len(enqueued), j \in 1..Len(dequeued) :
          TurnId(enqueued[i]) < TurnId(dequeued[j])
             => \E k \in 1..(j - 1) : dequeued[k] = enqueued[i]

\* two turns were dequeued while a further one was waiting behind them
C1_Witness ==
    Len(dequeued) >= 2 /\ queue # <<>> /\ tpc # "unstarted"

\* C2: the sequence numbers of the enqueued turns are exactly 1, 2, 3, ...,
\* and every cycle, also one that follows a failed cycle, prepares the number
\* that follows the turns enqueued so far.
C2_Gapless ==
    /\ \A i \in 1..Len(enqueued) : TurnId(enqueued[i]) = i
    /\ cyc \in {"max_check", "generate", "tts", "video", "build", "pub"}
          => loc.next_turn_id = Len(enqueued) + 1

\* a render failure during prebuffering (nothing published, nothing counted
\* as generated), and later a turn enqueued by the cycle that retried it
C2_Witness ==
    /\ video_mode /\ errors >= 1 /\ generated = 0
    /\ Len(enqueued) >= 1

\* C3: a turn has speaker A iff its sequence number is odd, and consecutively
\* enqueued and consecutively dequeued turns alternate speakers.
C3_SpeakerParity ==
    /\ \A o \in 1..Len(turns) :
          turns[o].speaker = (IF turns[o].turn_id % 2 = 1 THEN "A" ELSE "B")
    /\ \A i \in 1..(Len(enqueued) - 1) :
          turns[enqueued[i]].speaker # turns[enqueued[i + 1]].speaker
    /\ \A i \in 1..(Len(dequeued) - 1) :
          turns[dequeued[i]].speaker # turns[dequeued[i + 1]].speaker

\* three turns were played, A then B then A
C3_Witness ==
    /\ Len(dequeued) >= 3
    /\ turns[dequeued[1]].speaker = "A"
    /\ turns[dequeued[2]].speaker = "B"

\* every enqueued turn is either still in the queue or was dequeued, never
\* both and never twice; no turn is enqueued twice; the turn play_next holds
\* is the last one dequeued; no turn gets a second transcript line
ConsumedAtMostOnce ==
    /\ enqueued = dequeued \o queue
    /\ NoRepeat(enqueued)
    /\ NoRepeat([i \in 1..Len(enqueued) |-> TurnId(enqueued[i])])
    /\ cur # 0 => (dequeued # <<>> /\ cur = dequeued[Len(dequeued)])
    /\ NoRepeat([i \in 1..Len(transcript) |-> transcript[i].turn_id])

\* C4: an enqueued turn is removed from the queue by at most one play_next
\* call and is never enqueued or played again (ConsumedAtMostOnce, in every
\* state); and as long as the playback loop runs, each play_next that finds
\* the queue non-empty removes exactly its head, so that every enqueued turn
\* is consumed once.
C4_ConsumedOnce ==
    /\ []ConsumedAtMostOnce
    /\ [][ (mpc = "play_dequeue" /\ mpc' # mpc /\ queue # <<>>)
             => /\ queue' = Tail(queue)
                /\ cur' = Head(queue)
                /\ dequeued' = Append(dequeued, Head(queue))
                /\ mpc' = "present"
         ]_vars

\* a turn was played to the end while another one is in the queue
C4_Witness ==
    /\ Len(transcript) >= 1 /\ cur = 0 /\ mpc = "play_acquire"
    /\ queue # <<>>

\* C6: with max_turns > 0 no turn numbered above max_turns is created or
\* enqueued; the cycle that finds the next number above max_turns sets the
\* stop flag and returns, leaving queue, counter, history and turns alone;
\* the flag is never cleared; the prefetch loop exits at its next check.
C6_MaxTurns ==
    /\ [](max_turns > 0 =>
            /\ \A o \in 1..Len(turns) : TurnId(o) <= max_turns
            /\ turn_seq <= max_turns)
    /\ [][ /\ stop_event => stop_event'
           /\ (cyc = "max_check" /\ cyc' # cyc /\ max_turns > 0
                 /\ loc.next_turn_id > max_turns)
                => /\ stop_event' /\ cyc' = "returned"
                   /\ UNCHANGED <<queue, turn_seq, history, turns, enqueued>>
           /\ (~stop_event /\ stop_event') => (cyc = "max_check" /\ UNCHANGED queue)
           /\ (tpc = "loop_top" /\ tpc' # tpc /\ stop_event) => tpc' = "exited"
         ]_vars

\* the stop flag is set, the prefetch loop has exited, and a queued turn is
\* still there for playback
C6_Witness ==
    /\ max_turns > 0 /\ stop_event /\ tpc = "exited"
    /\ queue # <<>>

\* turns 1..max_turns were enqueued with speakers A, B, A, ..., playback has
\* consumed them all in order, the stop flag is set and the queue is empty
C5_Done ==
    /\ stop_event /\ tpc = "exited"
    /\ Len(enqueued) = max_turns
    /\ \A i \in 1..Len(enqueued) :
          /\ TurnId(enqueued[i]) = i
          /\ turns[enqueued[i]].speaker = (IF i % 2 = 1 THEN "A" ELSE "B")
    /\ dequeued = enqueued
    /\ [i \in 1..Len(transcript) |-> transcript[i].turn_id]
          = [i \in 1..max_turns |-> i]
    /\ queue = <<>>

\* C5: with max_turns >= 1 and min_queue_items >= 1, when external calls
\* succeed and both threads are scheduled fairly, the run reaches the state
\* C5_Done and stays in it: every later play_next finds the queue empty.
C5_RunsToCompletion ==
    (max_turns >= 1 /\ min_queue_items >= 1) => <>[]C5_Done

\* all turns played, and play_next has just found the queue empty
C5_Witness ==
    C5_Done /\ max_turns >= 1 /\ mpc = "idle_sleep" /\ cur = 0

\* C7: every read and every write of queue, turn_seq, history and
\* running_summary, by either thread, is made while that thread holds the
\* queue lock.
C7_AllAccessUnderLock ==
    access = {}

\* C8: once a Turn is enqueued its fields change only by the hand of the
\* consumer, after it dequeued that Turn, and only stream_session_id,
\* stream_task_id and duration_est_s; the producer writes none of them.
C8_NoWriteAfterEnqueue ==
    [][ \A o \in Range(enqueued) :
           turns'[o] # turns[o]
              => /\ mpc = "present" /\ cur = o /\ o \in Range(dequeued)
                 /\ turns'[o] = [turns[o] EXCEPT
                                   !.stream_session_id = turns'[o].stream_session_id,
                                   !.stream_task_id = turns'[o].stream_task_id,
                                   !.duration_est_s = turns'[o].duration_est_s]
      ]_vars

\* positions at which a thread is inside a network call, a subprocess call
\* or a sleep
CycNetwork == {"generate", "tts", "video", "summarize"}
LoopSleeps == {"sleep_err", "sleep_idle"}
MainBlocking == {"prebuf_sleep", "idle", "idle_sleep", "present", "transcript", "pace"}

\* C9: no thread holds the queue lock while it is in a network call, a
\* subprocess call or a sleep; so whenever play_next arrives at its dequeue
\* while the producer is inside such a call, the lock is free for it.
C9_NoLockAcrossCalls ==
    /\ cyc \in CycNetwork => lock # runner
    /\ tpc \in LoopSleeps => lock # "prefetch"
    /\ mpc \in MainBlocking => lock # "main"
    /\ (cyc \in CycNetwork /\ mpc = "play_acquire") => lock = "free"

\* play_next is about to dequeue while the prefetch thread is inside a
\* synthesis call made after a snapshot under the lock
C9_Witness ==
    /\ mpc = "play_acquire" /\ runner = "prefetch" /\ cyc = "tts"
    /\ loc.next_turn_id >= 2 /\ queue # <<>>

\* C10: an exception of a prefetch cycle run by the prefetch loop takes the
\* loop to its fixed sleep and from there back to the loop condition; the
\* loop exits only from the loop condition with the stop flag set.
C10_LoopSurvivesErrors ==
    [][ /\ (tpc = "call" /\ cyc = "raised" /\ tpc' # tpc) => tpc' = "sleep_err"
        /\ (tpc = "sleep_err" /\ tpc' # tpc) => tpc' = "loop_top"
        /\ (tpc # "exited" /\ tpc' = "exited") => (tpc = "loop_top" /\ stop_event)
      ]_vars

\* the prefetch loop sleeps after a cycle that raised before any turn was
\* built (a fatal render error of video mode)
C10_Witness ==
    /\ tpc = "sleep_err" /\ video_mode
    /\ turn_seq = 0 /\ turns = <<>>

\* C11: generate_turn never raises when text generation failed: the step
\* after a failed generation is the synthesis (or, without synthesis, the
\* construction of the Turn) with the bridge phrase of the role as the text;
\* a cycle is aborted only by the video render or by the summarization that
\* follows the enqueue.
C11_GenerateNeverFatal ==
    /\ [](cyc = "raised" => (loc.heygen_calls # {} \/ loc.turn # 0))
    /\ [][ (cyc = "generate" /\ cyc' # cyc)
             => /\ cyc' \in {"tts", "build"}
                /\ cyc' = "tts" <=> ~(text_only \/ streaming_mode)
                /\ faults' < faults => loc'.text = _bridge_phrase(loc.speaker)
                /\ faults' = faults => loc'.text = "gen"
         ]_vars

\* in text-only mode, where nothing but generate_turn can substitute the
\* text, the first turn was enqueued with the bridge phrase
C11_Witness ==
    /\ text_only /\ enqueued # <<>>
    /\ turns[enqueued[1]].text = _bridge_phrase("A")
    /\ history # <<>>

\* the history entries are the texts of the last enqueued turns
HistoryOfEnqueued ==
    \A j \in 1..Len(history) :
       LET o == enqueued[Len(enqueued) - Len(history) + j]
       IN history[j] = [speaker |-> turns[o].speaker, text |-> turns[o].text]

\* C12: in the modes that synthesize speech, a cycle whose synthesis failed
\* is not aborted before its turn is enqueued; the turn carries the bridge
\* phrase as text (the same text is in the history), no audio file and the
\* estimated duration, and its playback is paced by that estimate and not by
\* a media file.
C12_TtsFailureDegrades ==
    /\ (cyc = "raised" /\ loc.turn = 0) => loc.duration_est_s # "est"
    /\ \A o \in 1..Len(turns) :
          (~streaming_mode /\ turns[o].duration_est_s = "est")
             => /\ turns[o].audio_file = ""
                /\ turns[o].text = _bridge_phrase(turns[o].speaker)
    /\ Len(history) <= Len(enqueued) /\ HistoryOfEnqueued
    /\ (mpc = "pace" /\ ~streaming_mode /\ turns[cur].duration_est_s = "est")
          => ~PaceFromMedia(turns[cur])

\* C15: in video mode, a cycle that finds a non-empty file at the expected
\* path of its turn takes that path as the video of the turn, calls none of
\* upload, render, poll and download, and leaves the files as they are; this
\* also when the file was left by an earlier cycle for the same turn.
C15_CachedVideoReused ==
    [][ (cyc = "video" /\ cyc' # cyc /\ loc.next_turn_id \in video_files)
          => /\ cyc' = "build"
             /\ loc'.video_path = "video"
             /\ loc'.heygen_calls = {}
             /\ UNCHANGED <<video_files, faults>>
      ]_vars

\* the cycle reuses the file that a failed download of an earlier cycle for
\* the same turn left (no file of that turn existed when the run began)
C15_Witness ==
    /\ video_mode /\ cyc = "build"
    /\ loc.next_turn_id > MaxCached
    /\ loc.video_path = "video" /\ loc.heygen_calls = {}

IsError(c) == c # "ok"

\* C13: retry with max_retries = N >= 1 calls fn until it succeeds and at
\* most N times: when fn fails k < N times and then succeeds, it was called
\* k + 1 times, the success is its last call and its value is returned; when
\* fn fails N times, it was called N times and the error of the N-th call is
\* raised.
C13_RetryCalls ==
    /\ Len(fn_calls) <= max_retries
    /\ \A i \in 1..(Len(fn_calls) - 1) : fn_calls[i] = <<"error", i>>
    /\ rpc = "returned"
          => /\ fn_calls # <<>> /\ fn_calls[Len(fn_calls)] = "ok"
             /\ ret = "value"
    /\ rpc = "raised"
          => /\ Len(fn_calls) = max_retries
             /\ fn_calls[max_retries] = <<"error", max_retries>>
             /\ ret = fn_calls[max_retries]
    /\ rpc \in {"for", "except"}
          => \A i \in 1..Len(fn_calls) : IsError(fn_calls[i])

\* fn failed twice and then succeeded: three calls, the value returned
C13_Witness ==
    /\ rpc = "returned" /\ Len(fn_calls) = 3 /\ ret = "value"
    /\ Len(slept) = 2

\* C14: retry sleeps only between two attempts, and the sleep after the
\* k-th failed attempt lies in the band of 0.7 to 1.3 times
\* base_delay_s * 2^(k-1), capped at max_delay_s: no sleep is longer than
\* max_delay_s (delays in hundredths of a second).
C14_BackoffBand ==
    \A i \in 1..Len(slept) :
       LET k == slept[i].after
           nominal == base_delay_s * 100 * Pow2(k - 1)
       IN /\ k < max_retries
          /\ slept[i].cs >= Min(max_delay_s * 100, (nominal * 70) \div 100)
          /\ slept[i].cs <= Min(max_delay_s * 100, (nominal * 130) \div 100)
          /\ slept[i].cs <= max_delay_s * 100

\* the value the claim expects of get() once no override is in force:
\* the environment value, else the text of the topic file, else the default
Fallback ==
    IF env_topic \notin {None, ""} THEN Strip(env_topic)
    ELSE IF topic_file.exists /\ Strip(topic_file.text) # "" THEN Strip(topic_file.text)
    ELSE DefaultTopic

\* C16: get() returns the topic of the last set_override with a non-blank
\* topic (without its surrounding whitespace) at every time strictly before
\* the time of that call plus its ttl, whatever the environment and the file
\* hold; at and after that time, and when no override was ever installed, it
\* returns the environment value, else the file-backed value, else the
\* hard-coded default.
C16_OverrideThenFallback ==
    got.called =>
       IF installed.set /\ now < installed.at + installed.ttl_s
       THEN got.val = Strip(installed.topic)
       ELSE got.val = Fallback

\* get() is called after the override expired, with a value in the
\* environment and a text in the file: the environment value comes back
C16_Witness ==
    /\ got.called /\ installed.set
    /\ installed.ttl_s > 0 /\ now >= installed.at + installed.ttl_s
    /\ got.val = "E" /\ topic_file.text = "F\n"
    /\ tp._override_topic = None

HasRule(kind) == \E i \in 1..Len(extra_rules) : extra_rules[i].kind = kind

\* the text contains a methodology keyword, whatever the case of its letters
MethodologyText(text) ==
    \E w \in text, k \in _method_keywords : InWord(Lower(k), Lower(w))

\* C17: the directive list built for a turn contains the anti-loop directive
\* if and only if the history snapshot has at least two entries and each of
\* its last two entries contains, case-insensitively, a methodology keyword.
C17_AntiLoopIff ==
    dpc = "generate" =>
       (HasRule("anti_loop")
          <=> /\ Len(history_snapshot) >= 2
              /\ MethodologyText(history_snapshot[Len(history_snapshot)].text)
              /\ MethodologyText(history_snapshot[Len(history_snapshot) - 1].text))

\* the directive is in the list after an entry with the keyword in small
\* letters inside a word and an entry with a keyword in capitals
C17_Witness ==
    /\ dpc = "generate" /\ HasRule("anti_loop")
    /\ Len(history_snapshot) >= 3
    /\ history_snapshot[Len(history_snapshot)].text = {"KONTROL", "mTOR"}
    /\ history_snapshot[Len(history_snapshot) - 1].text = {"clock", "shumovoy"}
    /\ ~MethodologyText(history_snapshot[Len(history_snapshot) - 2].text)

\* the labels that occur at least test_class_max times among the classified
\* labels of the last test_class_window entries of the snapshot
OverUsed ==
    LET n == Len(history_snapshot)
        from == IF n > test_class_window THEN n - test_class_window + 1 ELSE 1
        labelled == {i \in from..n : _classify_test(history_snapshot[i].text) # None}
    IN {c \in Range(test_cycle) :
          Cardinality({i \in labelled :
                         _classify_test(history_snapshot[i].text) = c})
             >= test_class_max}

\* C18: for every history and every positive window and maximum, the labels
\* that occur at least test_class_max times among the classified labels of
\* the last test_class_window entries are the blocked ones of the turn, and
\* a test-cycle rotation directive of that turn never suggests one of them.
C18_BlockedNeverSuggested ==
    (dpc = "generate" /\ test_class_window > 0 /\ test_class_max > 0) =>
       /\ OverUsed # {} =>
             \E i \in 1..Len(extra_rules) :
                /\ extra_rules[i].kind = "blocked"
                /\ \A c \in Range(test_cycle) :
                      c \in OverUsed
                         <=> \E j \in 1..Len(extra_rules[i].args) :
                                /\ extra_rules[i].args[j] = c
                                /\ \E m \in (j + 1)..Len(extra_rules[i].args) :
                                      extra_rules[i].args[m] = "|"
       /\ \A i \in 1..Len(extra_rules) :
             extra_rules[i].kind = "rotation"
                => extra_rules[i].args[1] \notin OverUsed

\* the sentences of a text: each maximal run of non-terminator characters
\* with the terminators that follow it
SentencesOf(t) == FindIter(t, 1)

RECURSIVE Concat(_)
Concat(parts) == IF parts = <<>> THEN <<>> ELSE Head(parts) \o Concat(Tail(parts))

\* the text without its blanks
NoBlanks(t) == SelectSeq(t, LAMBDA c : c # " ")

\* the result is the first min(K, n) sentences of the text, in order
FirstSentences(t, K, result) ==
    LET n == Len(SentencesOf(t))
    IN /\ NoBlanks(result) = NoBlanks(Concat(SubSeq(SentencesOf(t), 1, Min(K, n))))
       /\ result = StripText(result)

\* C19 as claimed: with K > 0, _limit_sentences returns the first min(K, n)
\* of the n sentences of the text; with K <= 0 the stripped text; and every
\* text generate_turn returns has at most MAX_SENTENCES sentences.
C19_AsClaimed ==
    /\ (lpc = "limit" /\ max_sentences > 0)
          => FirstSentences(output_text, max_sentences, limited)
    /\ (lpc = "limit" /\ max_sentences <= 0) => limited = StripText(output_text)
    /\ lpc \in {"generated", "bridged"}
          => Len(SentencesOf(limited)) <= max_sentences

\* the text has a sentence that is not blank
HasSentence(t) ==
    \E i \in 1..Len(SentencesOf(t)) : StripText(SentencesOf(t)[i]) # <<>>

\* C19, amended: with K > 0, a text with at least one non-blank sentence
\* comes back as its first min(K, n) sentences, in order, and a text
\* without one as it is, stripped; with K <= 0 the stripped text comes
\* back; and with MAX_SENTENCES > 0 every text generate_turn returns, a
\* bridge phrase too, has at most MAX_SENTENCES sentences.
C19_LimitSentences ==
    /\ (lpc = "limit" /\ max_sentences > 0)
          => IF HasSentence(output_text)
             THEN FirstSentences(output_text, max_sentences, limited)
             ELSE limited = StripText(output_text)
    /\ (lpc = "limit" /\ max_sentences <= 0) => limited = StripText(output_text)
    /\ (lpc \in {"generated", "bridged"} /\ max_sentences > 0)
          => Len(SentencesOf(limited)) <= max_sentences

\* the five sentences cut to two
C19_Witness ==
    /\ lpc = "limit" /\ max_sentences = 2
    /\ output_text = FiveSentences
    /\ limited = <<"a", ".", " ", "a", "!">>

\* ------------------------------------------------------------------ C20
\* a step of play_next on its empty-queue path (lines 917-933)
EmptyQueueStep ==
    /\ mpc' # mpc
    /\ \/ mpc = "play_dequeue" /\ queue = <<>>
       \/ mpc \in {"idle", "idle_sleep"}

\* C20: play_next on an empty queue consumes nothing: none of its steps
\* changes queue, turn_seq, history, the transcript or the list of dequeued
\* turns; it returns no turn, only after the idle sleep; and outside text-only
\* mode the presentation surface shows the idle scene when it returns.
C20_EmptyQueueIdle ==
    [][EmptyQueueStep =>
         /\ UNCHANGED <<queue, turn_seq, history, transcript, dequeued, turns>>
         /\ cur' = 0
         /\ mpc' = "play_acquire" =>
               /\ mpc = "idle_sleep"
               /\ ~text_only => obs_scene' = "SCENE_IDLE"]_vars

\* an idle play_next after a turn was shown: the scene went back to idle
C20_Witness ==
    /\ mpc = "idle_sleep" /\ ~text_only
    /\ transcript # <<>>
    /\ obs_scene = "SCENE_IDLE"
    /\ \E i \in 1..Len(transcript) : transcript[i].video_file # "" \/ ~video_mode

\* ------------------------------------------------------------------ C21
\* C21: every turn dequeued by play_next gets exactly one transcript entry,
\* written before its pacing wait: the transcript lists the dequeued turns in
\* their order, and none is missing once play_next has left the presentation
\* of the turn.
C21_EveryDequeuedLogged ==
    /\ Len(transcript) <= Len(dequeued)
    /\ \A i \in 1..Len(transcript) :
           transcript[i].turn_id = turns[dequeued[i]].turn_id
    /\ mpc \notin {"present", "transcript"} => Len(transcript) = Len(dequeued)

\* ------------------------------------------------------------------ C22
\* C22: the playback loop never stops: whatever fails inside a play_next
\* call, control returns to the loop of run_forever, so the main thread is
\* never ended by an exception of play_next.
C22_PlaybackNeverStops ==
    [][(mpc \in {"idle", "present", "transcript", "pace"})
          => mpc' # "crashed"]_vars

\* ------------------------------------------------------------------ C23
\* the cycle has published its turn and its summarization failed (raised)
\* or returned an empty text
SummaryFailed ==
    /\ loc.turn # 0
    /\ \/ cyc = "raised"
       \/ /\ cyc \in {"sum_acquire", "sum_store", "sum_len", "returned"}
          /\ should_summarize(loc.turn_count)
          /\ loc.new_summary = ""

\* C23: when summarization fails or returns an empty text, running_summary
\* keeps the value it had, the turn published by the cycle stays published
\* (counter, history, and the queue until play_next takes it), and the
\* prefetch loop sleeps and goes back to its loop condition.
C23_SummaryFailureKeeps ==
    /\ [](SummaryFailed =>
            /\ running_summary = loc.summary_before
            /\ history = loc.history_for_sum
            /\ turn_seq = loc.next_turn_id
            /\ loc.turn \in Range(enqueued)
            /\ loc.turn \in Range(queue) \cup Range(dequeued))
    /\ [][(tpc = "call" /\ cyc = "raised" /\ tpc' # tpc) => tpc' = "sleep_err"]_vars
    /\ [][(tpc = "sleep_err" /\ tpc' # tpc) => tpc' = "loop_top"]_vars

\* a summary exists, and the summarization of a later cycle of the prefetch
\* loop raised
C23_Witness ==
    /\ cyc = "raised" /\ loc.turn # 0 /\ runner = "prefetch"
    /\ running_summary = "sum"

\* ------------------------------------------------------------------ C24
\* C24: with summary interval N > 0 a prefetch cycle invokes summarization
\* if and only if the number of turns produced so far (the turn it has just
\* published included) is a multiple of N, also after history has reached
\* its cap.
C24_SummaryEveryN ==
    [][(cyc = "sum_check" /\ cyc' # cyc) =>
         (cyc' = "summarize" <=>
             (SummaryEveryCfg > 0 /\ loc.next_turn_id % SummaryEveryCfg = 0))]_vars

\* ------------------------------------------------------------------ C25
Max(a, b) == IF a > b THEN a ELSE b

\* the turns a prebuffer phase can publish: PREBUFFER_TOTAL_TURNS counted
\* cycles, and the cycles that raised after publishing (lines 1066-1074)
PrebufferMost ==
    IF prebuffer_total > 0 THEN prebuffer_total + MaxErrorsCfg - 1 ELSE 0

\* C25: the queue length is bounded by configuration: while prebuffering the
\* queue holds the prebuffered turns and nothing else; once playback has
\* started the queue grows only to a length of at most min_queue_items; so
\* the length never exceeds the larger of min_queue_items and the number of
\* turns prebuffered, which configuration bounds.
C25_QueueBounded ==
    /\ [](tpc = "unstarted" => queue = enqueued)
    /\ [](Len(queue) <= Max(min_queue_items, PrebufferMost))
    /\ [][(tpc # "unstarted" /\ Len(queue') > Len(queue))
            => Len(queue') <= min_queue_items]_vars

\* the prebuffered turns exceed the floor and the prefetch loop idle-waits
C25_Witness ==
    /\ tpc = "sleep_idle"
    /\ Len(queue) > min_queue_items

\* ------------------------------------------------------------------ C26
\* C26 as claimed: through the prefetch loop alone (no prebuffering) the
\* queue comes to hold more than min_queue_items + 1 turns.
C26_AsClaimed ==
    <>(prebuffer_total = 0 /\ Len(queue) > min_queue_items + 1)

\* C26, amended: through the prefetch loop alone the queue never holds more
\* than min_queue_items turns, however slow playback is: the loop starts a
\* cycle only after reading a length below the floor, it is the only
\* producer, and a cycle adds one turn.
C26_LoopNeverOvershoots ==
    prebuffer_total = 0 => Len(queue) <= min_queue_items

\* production ahead of playback: the loop has filled the queue to the floor
\* and idle-waits before play_next has taken any turn
C26_Witness ==
    /\ prebuffer_total = 0 /\ min_queue_items = MinQueueCfg
    /\ tpc = "sleep_idle" /\ dequeued = <<>>
    /\ Len(queue) = min_queue_items

\* ------------------------------------------------------------------ C27
\* the {speaker, text} pairs of the enqueued turns, oldest first
PairsOfEnqueued ==
    [i \in 1..Len(enqueued) |->
        [speaker |-> turns[enqueued[i]].speaker, text |-> turns[enqueued[i]].text]]

\* C27: whenever the queue lock is free, history has at most history_max
\* entries and is, in order, the {speaker, text} pairs of the most recent
\* min(turn_seq, history_max) enqueued turns, each with the text of its turn;
\* and history changes only in the publishing step of the producer.
C27_HistoryOfRecentTurns ==
    /\ [](lock = "free" =>
            /\ Len(history) <= HistoryMaxCfg
            /\ Len(history) = Min(turn_seq, HistoryMaxCfg)
            /\ Len(enqueued) = turn_seq
            /\ history = LastN(PairsOfEnqueued, HistoryMaxCfg))
    /\ [][history' # history =>
            /\ cyc = "pub" /\ lock = runner
            /\ history' = HistoryCap(Append(history, [speaker |-> loc.speaker,
                                                       text |-> loc.text]))]_vars

\* more turns than the cap were enqueued, one of those kept in history
\* carries a bridge phrase
C27_Witness ==
    /\ lock = "free"
    /\ turn_seq > HistoryMaxCfg /\ Len(history) = HistoryMaxCfg
    /\ \E i \in 1..Len(history) : history[i].text = _bridge_phrase(history[i].speaker)

\* ------------------------------------------------------------------ C28
\* the scene switches play_next has asked for in its current call
SceneCalls(calls) == {i \in 1..Len(calls) : calls[i].op = "set_scene"}

\* C28: play_next asks for a scene switch for a turn if and only if the
\* scene of the speaker differs from the memoized scene; every switch it
\* asks for (for a turn or for idling) is to another scene than the one the
\* surface shows, so no two consecutive switches go to the same scene; and
\* while a turn played outside text-only mode is paced, the memoized scene
\* and the scene shown are the scene of its speaker.
C28_SceneMemo ==
    /\ [][(mpc = "present" /\ mpc' # mpc /\ ~text_only /\ ~VideoMissing(turns[cur]))
            => (SceneCalls(obs_calls') # {}
                   <=> last_scene # _scene_for_speaker(turns[cur].speaker))]_vars
    /\ [][(mpc \in {"present", "idle"} /\ mpc' # mpc)
            => \A i \in SceneCalls(obs_calls') :
                  /\ obs_calls'[i].scene # obs_scene
                  /\ obs_calls'[i].scene # last_scene]_vars
    /\ []((mpc \in {"transcript", "pace"} /\ ~text_only /\ ~VideoMissing(turns[cur]))
            => /\ last_scene = _scene_for_speaker(turns[cur].speaker)
               /\ obs_scene = last_scene)

\* the second turn is paced in the scene of speaker B, after the first one
\* was shown in the scene of speaker A
C28_Witness ==
    /\ mpc = "pace" /\ ~text_only
    /\ turns[cur].turn_id = 2 /\ Len(transcript) = 2
    /\ obs_scene = "SCENE_B"

\* ------------------------------------------------------------------ C29
\* C29: while a turn played from a media file is paced, the media source
\* restarted for it plays the file of that turn: the restart came after the
\* assignment of the file to the source, also when an assignment failed.
C29_OwnArtifactPlays ==
    (mpc \in {"transcript", "pace"} /\ PaceFromMedia(turns[cur]))
        => /\ playing = turns[cur].turn_id
           /\ media[MediaInput(turns[cur])] = turns[cur].turn_id

\* ------------------------------------------------------------------ C30
AuxOps == {"set_overlay", "highlight"}

\* an auxiliary update of the current play_next call failed
AuxFailed(calls) ==
    \E i \in 1..Len(calls) : calls[i].op \in AuxOps /\ ~calls[i].ok

\* no other call of it failed, the swallowed set_media_file aside
RequiredOk(calls) ==
    \A i \in 1..Len(calls) :
        calls[i].ok \/ calls[i].op \in AuxOps \cup {"set_media_file"}

\* C30: a failed overlay or highlight update does not end play_next: the
\* presentation goes on to the transcript entry of the turn, then to its
\* pacing wait, and the call returns that turn (unless the wait itself
\* fails); on the idle path it goes on to the idle sleep.
C30_AuxFailureSwallowed ==
    /\ [][(mpc = "present" /\ mpc' # mpc /\ AuxFailed(obs_calls') /\ RequiredOk(obs_calls'))
            => mpc' = "transcript"]_vars
    /\ [][(mpc = "idle" /\ mpc' # mpc /\ AuxFailed(obs_calls') /\ RequiredOk(obs_calls'))
            => mpc' = "idle_sleep"]_vars
    /\ [][(mpc = "transcript" /\ mpc' # mpc)
            => /\ mpc' = "pace"
               /\ transcript' = Append(transcript, turns[cur])]_vars
    /\ []((mpc = "pace" /\ AuxFailed(obs_calls))
            => /\ cur = dequeued[Len(dequeued)]
               /\ transcript[Len(transcript)].turn_id = turns[cur].turn_id)
    /\ [][(mpc = "pace" /\ mpc' # mpc /\ faults' = faults) => mpc' = "play_acquire"]_vars

\* a turn is paced although its overlay update failed: the stage memo was
\* not set
C30_Witness ==
    /\ mpc = "pace"
    /\ \E i \in 1..Len(obs_calls) : obs_calls[i].op = "set_overlay" /\ ~obs_calls[i].ok
    /\ last_stage = "none"
    /\ transcript # <<>>

\* ------------------------------------------------------------------ C31
WaitDone == wpc \in {"returned", "raised", "failed"}

\* C31: _wait_playback_end terminates whatever states the surface reports:
\* it raises only when no playing / ended / stopped state was seen and the
\* start timeout has elapsed, it returns only when ended or stopped is
\* reported after the start or the maximum play time has elapsed since the
\* start, and it goes on waiting only while neither limit is reached.
C31_WaitTerminates ==
    /\ <>WaitDone
    /\ [](wpc = "raised" =>
            play_start_t = NoneNum /\ wnow - start_t >= StartTimeoutTicks)
    /\ [](wpc = "returned" =>
            /\ play_start_t # NoneNum
            /\ \/ norm \in {"ended", "stopped"}
               \/ wnow - play_start_t >= MaxPlayTicks)
    /\ [](wpc = "sleep" =>
            IF play_start_t = NoneNum
            THEN wnow - start_t < StartTimeoutTicks
            ELSE norm \notin {"ended", "stopped"}
                    /\ wnow - play_start_t < MaxPlayTicks)
    /\ [](wnow <= MaxWaitClock)

\* the source went on reporting paused after the start: the call returned
\* when the maximum play time had elapsed
C31_Witness ==
    /\ wpc = "returned" /\ norm = "paused"
    /\ wnow - play_start_t >= MaxPlayTicks

\* ------------------------------------------------------------------ C40
\* C40: _wait_playback_end returns normally only after a poll reported the
\* source as playing, or after the maximum play time has elapsed.
C40_ReturnsAfterPlaying ==
    wpc = "returned" =>
        seen_playing \/ wnow - play_start_t >= MaxPlayTicks

\* ------------------------------------------------------------------ C34
\* C34: on every non-closing turn whose number is congruent to a role's
\* steelman offset modulo steelman_every_n, the directive list contains the
\* steelman directive of that role.
C34_SteelmanAtOffset ==
    (dpc = "generate" /\ next_turn_id # stream_closing_turn
        /\ steelman_every_n > 0) =>
       /\ next_turn_id % steelman_every_n = steelman_a_offset
             => HasRule("steelman_a")
       /\ next_turn_id % steelman_every_n = steelman_b_offset
             => HasRule("steelman_b")

\* ------------------------------------------------------------------ C35
\* C35: on the closing turn the directive list ends with the closing
\* directive and has no level-shift, question, steelman or rotation
\* directive; on every other turn it has no closing directive.
C35_ClosingTurn ==
    dpc = "generate" =>
       IF next_turn_id = stream_closing_turn
       THEN /\ extra_rules # <<>>
            /\ extra_rules[Len(extra_rules)].kind = "closing"
            /\ \A i \in 1..(Len(extra_rules) - 1) :
                  extra_rules[i].kind # "closing"
            /\ ~HasRule("level_shift") /\ ~HasRule("question")
            /\ ~HasRule("steelman_a") /\ ~HasRule("steelman_b")
            /\ ~HasRule("rotation")
       ELSE ~HasRule("closing")

\* the closing turn is one where the level-shift, question and steelman
\* rules would be due, and the list has other directives before the closing
\* one
C35_Witness ==
    /\ dpc = "generate" /\ next_turn_id = stream_closing_turn
    /\ next_turn_id % roundup_every_n = 0 /\ next_turn_id % 3 = 0
    /\ next_turn_id % steelman_every_n = steelman_b_offset
    /\ Len(extra_rules) >= 2 /\ HasRule("closing")

\* ------------------------------------------------------------------ C39
\* the history entry of the queued turn o is where its number puts it,
\* unless the cap has already dropped it
EntryPresent(o) ==
    LET back == turn_seq - TurnId(o)
    IN  (back >= 0 /\ back < Len(history)) =>
           history[Len(history) - back] =
              [speaker |-> turns[o].speaker, text |-> turns[o].text]

\* C39: the turn counter, the tail of the queue and the history change only
\* together, in the publishing section and under the lock: the counter goes
\* up by one, the one new turn is appended, its entry enters the history.
\* Whenever the lock is free, and whenever the consumer holds it, turn_seq is
\* the number of turns enqueued so far, no queued turn has a number above
\* turn_seq, and the history entry of every queued turn is in place.
C39_PublishedTogether ==
    /\ [](lock \in {"free", "main"} =>
            /\ turn_seq = Len(enqueued)
            /\ \A i \in 1..Len(queue) :
                  /\ TurnId(queue[i]) <= turn_seq
                  /\ EntryPresent(queue[i]))
    /\ [][(turn_seq' # turn_seq \/ history' # history
              \/ enqueued' # enqueued
              \/ (Len(queue') > 0 /\ Len(queue') >= Len(queue)
                    /\ queue' # queue)) =>
            /\ lock = runner /\ lock' = "free" /\ cyc = "pub"
            /\ turn_seq' = turn_seq + 1
            /\ enqueued' = Append(enqueued, loc.turn)
            /\ queue' = Append(queue, loc.turn)
            /\ TurnId(loc.turn) = turn_seq'
            /\ history' = HistoryCap(Append(history,
                             [speaker |-> loc.speaker, text |-> loc.text]))]_vars

\* the consumer holds the lock over a queue of two turns, the second of them
\* just published by the prefetch thread, whose cycle has not returned yet
C39_Witness ==
    /\ lock = "main" /\ mpc = "play_dequeue" /\ Len(queue) >= 2
    /\ runner = "prefetch" /\ cyc \in {"sum_check", "summarize"}
    /\ turn_seq >= 2

\* ------------------------------------------------------------------ C37
\* C37: the video file a cycle reuses from the cache, and the video file of
\* every enqueued turn, is a completely downloaded one.
C37_CachedFileComplete ==
    /\ (cyc = "build" /\ loc.video_path # "" /\ loc.heygen_calls = {})
          => loc.next_turn_id \notin partial_files
    /\ \A i \in 1..Len(enqueued) :
          turns[enqueued[i]].video_file # ""
             => TurnId(enqueued[i]) \notin partial_files

\* ------------------------------------------------------------------ C38
\* C38: a call of get that begins after set_override has returned, and
\* before the override it installed expires, returns the topic of that
\* override, whatever a concurrent call of get was doing to the previous
\* override.
C38_OverrideNotLost ==
    (gpc = "returned" /\ g_after /\ installed.set
        /\ g_now < installed.at + installed.ttl_s)
       => got.val = installed.topic

\* ------------------------------------------------------------------ C32
\* the calls made of service s, and those of them that succeeded
CallsOf(s) == {i \in 1..Len(rcalls) : rcalls[i].step = s}
OkCallsOf(s) == {i \in CallsOf(s) : rcalls[i].ok}

\* C32: the services of one render are called in the order upload, generate,
\* poll, download; a service is called only after the one before it has
\* succeeded, at most its own max_retries times, and never again after it
\* has succeeded; the render leaves the cycle at build only when all four
\* have succeeded; when the attempts of a call are used up the cycle is left
\* raised, and then no turn is or gets enqueued and turn_seq is unchanged.
C32_RenderSteps ==
    /\ [](/\ \A i, j \in 1..Len(rcalls) :
                i < j => /\ rcalls[i].step <= rcalls[j].step
                         /\ rcalls[i].ok => rcalls[i].step < rcalls[j].step
          /\ \A j \in 1..Len(rcalls) :
                rcalls[j].step > 1 =>
                   \E i \in 1..(j - 1) :
                      rcalls[i].step = rcalls[j].step - 1 /\ rcalls[i].ok
          /\ \A s \in 1..Len(HeygenSteps) : Cardinality(CallsOf(s)) <= r_max[s]
          /\ cyc \in {"build", "pub", "sum_check"} =>
                \A s \in 1..Len(HeygenSteps) : Cardinality(OkCallsOf(s)) = 1
          /\ cyc = "raised" =>
                turn_seq = 0 /\ queue = <<>> /\ enqueued = <<>> /\ turns = <<>>)
    /\ [][/\ (cyc = "video" /\ rstep \in 1..Len(HeygenSteps)
                 /\ Cardinality(CallsOf(rstep)) >= r_max[rstep])
             => cyc' = "raised"
          /\ cyc = "raised" => cyc' = "raised"]_vars

\* upload, generate and poll succeeded at their first attempt; the download
\* failed max_retries times, more than once, and the cycle is left raised
C32_Witness ==
    /\ cyc = "raised" /\ rstep = Len(HeygenSteps) /\ r_max[rstep] >= 2
    /\ Cardinality(CallsOf(rstep)) = r_max[rstep]
    /\ \A s \in 1..(rstep - 1) : Cardinality(CallsOf(s)) = 1

\* ------------------------------------------------------------------ C33
\* the sessions the service created for persona p
CreatedFor(p) == {i \in 1..Len(created) : created[i].agent = p}

\* C33: the service creates at most one session per persona; a stored
\* session is never replaced and its persona never gets another one; and the
\* speak tasks sent are one per presented turn, in turn order, each to the
\* stored session of the speaker of its turn.
C33_SessionOncePerPersona ==
    /\ [](/\ \A p \in Personas : Cardinality(CreatedFor(p)) <= 1
          /\ stpc \in {"play", "ensure", "session", "send"} /\ st_ret = "play_next"
                => Len(sent) = st_turn - 1
          /\ \A i \in 1..Len(sent) :
                /\ sent[i].turn_id = i
                /\ sent[i].speaker = _next_speaker(i)
                /\ sent[i].session_id # 0
                /\ sent[i].session_id = stream_sessions[sent[i].speaker]
                /\ \E k \in CreatedFor(sent[i].speaker) :
                      created[k].session_id = sent[i].session_id)
    /\ [][\A p \in Personas :
             Stored(stream_sessions, p) =>
                /\ stream_sessions'[p] = stream_sessions[p]
                /\ \A k \in 1..Len(created') :
                      created'[k].agent = p => k <= Len(created)]_vars

\* both personas have spoken twice, and _ensure_stream_sessions has been
\* called again for the next turn
C33_Witness ==
    /\ Len(sent) = 4 /\ st_ret = "play_next"
    /\ sent[1].session_id = sent[3].session_id
    /\ sent[2].session_id = sent[4].session_id
    /\ sent[1].session_id # sent[2].session_id

\* ------------------------------------------------------------------ C36
\* C36: the file at the final path is never a partly written one, it changes
\* only by the rename of a completely written temporary file, a turn
\* enqueued with a non-empty audio_file finds there the complete audio that
\* the speak call of its own cycle wrote, and a turn whose synthesis failed
\* is enqueued with an empty audio_file.
C36_AudioFileComplete ==
    /\ [](/\ files["out"].content # "partial"
          /\ ttspc = "enqueued" =>
                IF Truthy(audio_file)
                THEN files[audio_file] = CompleteFile(speaks)
                ELSE audio_file = ""
          /\ ttspc = "raised" => audio_path = "")
    /\ [][files'["out"] # files["out"] =>
             /\ ttspc = "replace" /\ ttspc' = "returned"
             /\ files["tmp"] = CompleteFile(speaks)
             /\ files'["out"] = files["tmp"]]_vars
    /\ [][(ttspc = "raised" /\ ttspc' = "enqueued") => audio_file' = ""]_vars

\* the first cycle of the turn left a complete file, the second cycle's
\* synthesis broke off after the first chunks on every attempt, and the turn
\* was enqueued without audio
C36_Witness ==
    /\ ttspc = "enqueued" /\ audio_file = "" /\ speaks = 2
    /\ files["out"] = CompleteFile(1) /\ files["tmp"] = PartialFile(2)

====
